---------------------------- MODULE Spec2Model ----------------------------
(***************************************************************************)
(* Model of the content-to-vector pipeline of repo_ingestion:              *)
(*   pinecone/index_manager.py  (prepare_vectors_for_upsert,               *)
(*                               upsert_vectors, MockIndex)                *)
(*   embedding/embedder.py      (embed_chunks)                             *)
(*   firecrawl/crawler.py       (chunk_firecrawl_content)                  *)
(*   validation/validation.py   (validate_repository_ingestion)            *)
(*   pipeline.py                (run_pipeline)                             *)
(*                                                                         *)
(* A Python dict is a TLA+ function whose DOMAIN is the set of its keys.   *)
(* A Python str whose bytes matter is a run-length encoded sequence of     *)
(* character classes (Text); a str the chunker scans is a sequence of      *)
(* one-character strings.                                                  *)
(***************************************************************************)
EXTENDS Integers, Sequences, FiniteSets, TLC

VARIABLES
    pk_pc, pk_chunks, pk_vectors,                     \* prepare_vectors_for_upsert
    em_pc, em_chunks, em_dimension, em_result,        \* embed_chunks
    up_pc, up_vectors, up_batch_size, up_result,      \* upsert_vectors
    up_index,                                         \* the index upsert_vectors writes to
    ch_pc, content, max_chunk_size, overlap,          \* chunk_firecrawl_content
    start, chunks,
    va_pc, file_paths, sample_paths, va_i,            \* validate_repository_ingestion
    validation_results, va_queries, va_result,
    pl_pc, pl_args, pl_repo_chunks, pl_web_chunks,    \* run_pipeline
    pl_work, pl_index, pl_log, pl_upserts, pl_validation, pl_outcome,
    ri_runs, ri_uuid, ri_index, ri_history,           \* ingestion runs on one index
    rx_pc, rx_dump, rx_result,                        \* parse_repomix_output
    co_uuid, co_index, co_log,                        \* ingestion of several corpora
    se_pc, se_dimension, se_text, se_vector, se_result,\* the sparse embedding function
    sw_pc, sw_input, sw_result,                       \* search_web_content
    su_pc, su_args, su_i, retries, success, su_results, su_log,\* scrape_urls
    pf_pc, pf_results, pf_chunks,                     \* process_firecrawl_results
    ex_pc, ex_lines, ex_file_paths, ex_fallback, ex_result\* candidate extraction of the validator

pkVars == <<pk_pc, pk_chunks, pk_vectors>>
emVars == <<em_pc, em_chunks, em_dimension, em_result>>
upVars == <<up_pc, up_vectors, up_batch_size, up_result, up_index>>
chVars == <<ch_pc, content, max_chunk_size, overlap, start, chunks>>
vaVars == <<va_pc, file_paths, sample_paths, va_i, validation_results,
            va_queries, va_result>>
plVars == <<pl_pc, pl_args, pl_repo_chunks, pl_web_chunks, pl_work, pl_index,
            pl_log, pl_upserts, pl_validation, pl_outcome>>
riVars == <<ri_runs, ri_uuid, ri_index, ri_history>>
rxVars == <<rx_pc, rx_dump, rx_result>>
coVars == <<co_uuid, co_index, co_log>>
seVars == <<se_pc, se_dimension, se_text, se_vector, se_result>>
swVars == <<sw_pc, sw_input, sw_result>>
suVars == <<su_pc, su_args, su_i, retries, success, su_results, su_log>>
pfVars == <<pf_pc, pf_results, pf_chunks>>
exVars == <<ex_pc, ex_lines, ex_file_paths, ex_fallback, ex_result>>
vars == <<pkVars, emVars, upVars, chVars, vaVars, plVars, riVars, rxVars, coVars, seVars, swVars, suVars, pfVars, exVars>>

-----------------------------------------------------------------------------
(* Helpers *)

Min(a, b) == IF a < b THEN a ELSE b

Max(a, b) == IF a > b THEN a ELSE b

\* dict.get(key, default)
Get(d, k, default) == IF k \in DOMAIN d THEN d[k] ELSE default

EmptyDict == [k \in {} |-> 0]

RECURSIVE SumSeq(_)
SumSeq(s) == IF s = <<>> THEN 0 ELSE Head(s) + SumSeq(Tail(s))

RECURSIVE Concat(_)
Concat(ss) == IF ss = <<>> THEN <<>> ELSE Head(ss) \o Concat(Tail(ss))

\* All sequences over S of length 0..n
SeqUpTo(S, n) == UNION {[1..k -> S] : k \in 0..n}

-----------------------------------------------------------------------------
(* Text: a str as runs of characters of one class.  A class fixes the size *)
(* of a character in UTF-8 and in json.dumps output (ensure_ascii):        *)
(*   ascii  plain printable ASCII            1 byte, 1 byte                *)
(*   space  the space character              1 byte, 1 byte                *)
(*   esc    quote, backslash, \n, \t ...     1 byte, 2 bytes               *)
(*   ctl    other control characters         1 byte, 6 bytes (\u00XX)      *)
(*   u2,u3  2- and 3-byte code points        6 bytes (\uXXXX)              *)
(*   u4     4-byte code points               12 bytes (surrogate pair)     *)

Classes == {"ascii", "esc", "ctl", "u2", "u3", "u4"}

Utf8Bytes(c) ==
    CASE c = "u2" -> 2 [] c = "u3" -> 3 [] c = "u4" -> 4 [] OTHER -> 1

JsonBytes(c) ==
    CASE c \in {"ascii", "space"} -> 1 [] c = "esc" -> 2 [] c = "u4" -> 12
      [] OTHER -> 6

Run(c, n) == [cls |-> c, n |-> n]

\* t.strip() == "": nothing but spaces
IsBlank(t) == \A i \in 1..Len(t) : t[i].cls = "space"

RECURSIVE Utf8Len(_)
Utf8Len(t) ==
    IF t = <<>> THEN 0 ELSE Head(t).n * Utf8Bytes(Head(t).cls) + Utf8Len(Tail(t))

RECURSIVE JsonLen(_)
JsonLen(t) ==
    IF t = <<>> THEN 0 ELSE Head(t).n * JsonBytes(Head(t).cls) + JsonLen(Tail(t))

RECURSIVE CharLen(_)
CharLen(t) == IF t = <<>> THEN 0 ELSE Head(t).n + CharLen(Tail(t))

\* bytes[:k] of a bytes object of length len: how many bytes the slice keeps
SliceEnd(len, k) == IF k >= 0 THEN Min(k, len) ELSE Max(0, len + k)

\* The whole characters within the first k bytes (k >= 0) of t
RECURSIVE TakeBytes(_, _)
TakeBytes(t, k) ==
    IF t = <<>> \/ k <= 0 THEN <<>>
    ELSE LET r == Head(t)
             b == Utf8Bytes(r.cls)
             fit == k \div b
         IN  IF fit >= r.n THEN <<r>> \o TakeBytes(Tail(t), k - r.n * b)
             ELSE IF fit = 0 THEN <<>> ELSE <<Run(r.cls, fit)>>

\* text.encode('utf-8')[:k].decode('utf-8', errors='ignore')
TruncateUtf8(t, k) == TakeBytes(t, SliceEnd(Utf8Len(t), k))

\* t is a prefix of u
RECURSIVE IsPrefix(_, _)
IsPrefix(t, u) ==
    IF t = <<>> THEN TRUE
    ELSE IF u = <<>> THEN FALSE
    ELSE IF Head(t).cls # Head(u).cls THEN FALSE
    ELSE IF Head(t).n = Head(u).n THEN IsPrefix(Tail(t), Tail(u))
    ELSE Head(t).n < Head(u).n /\ Tail(t) = <<>>

-----------------------------------------------------------------------------
(* prepare_vectors_for_upsert *)

MAX_METADATA_SIZE == 40 * 1024

\* len(s) of the source_type values the repository uses
StrLen(s) ==
    CASE s = "repository"      -> 10
      [] s = "firecrawl"       -> 9
      [] s = "web"             -> 3
      [] s = "web_search"      -> 10
      [] s = "web_search_mock" -> 15
      [] s = "error"           -> 5
      [] s = "unknown"         -> 7
      [] s = ""                -> 0

\* len of a key of the metadata dict
KeyLen(k) ==
    CASE k = "source_type" -> 11
      [] k = "file_path"   -> 9
      [] k = "source_url"  -> 10
      [] k = "text"        -> 4
      [] k = "truncated"   -> 9

\* len(json.dumps(v)) of one metadata value
JsonValueLen(k, v) ==
    CASE k = "source_type" -> StrLen(v) + 2
      [] k = "truncated"   -> IF v THEN 4 ELSE 5
      [] OTHER             -> JsonLen(v) + 2

\* len(json.dumps(metadata).encode('utf-8')): {"k": v, "k": v}
RECURSIVE JsonItemsLen(_, _)
JsonItemsLen(m, keys) ==
    IF keys = {} THEN 0
    ELSE LET k == CHOOSE x \in keys : TRUE
         IN  (KeyLen(k) + 2) + 2 + JsonValueLen(k, m[k])
             + JsonItemsLen(m, keys \ {k})

MetadataSize(m) ==
    2 + JsonItemsLen(m, DOMAIN m) + 2 * Max(0, Cardinality(DOMAIN m) - 1)

\* generate_vector_id with an id that does not depend on the draw
generate_vector_id_Fixed(prefix, uuid) == [prefix |-> prefix, uuid |-> 0]

\* generate_vector_id: uuid4 is modelled as a fresh number
generate_vector_id(prefix, uuid) == [prefix |-> prefix, uuid |-> uuid]

\* lines 219-228: the metadata before the text is added
BaseMetadata(chunk) ==
    LET m0 == [source_type |-> Get(chunk, "source_type", "unknown")]
    IN  IF Get(chunk, "source_type", "") = "repository" /\ "file_path" \in DOMAIN chunk
        THEN m0 @@ ("file_path" :> chunk["file_path"])
        ELSE IF Get(chunk, "source_type", "") = "firecrawl" /\ "source_url" \in DOMAIN chunk
        THEN m0 @@ ("source_url" :> chunk["source_url"])
        ELSE m0

\* lines 233-237
AvailableSpace(metadata) == MAX_METADATA_SIZE - MetadataSize(metadata) - 10

\* lines 230-249
PrepareMetadata(chunk) ==
    LET metadata == BaseMetadata(chunk)
        text == Get(chunk, "text", <<>>)
        available_space == AvailableSpace(metadata)
    IN  IF Utf8Len(text) > available_space
        THEN metadata @@ ("text" :> TruncateUtf8(text, available_space))
                      @@ ("truncated" :> TRUE)
        ELSE metadata @@ ("text" :> text)

\* lines 215-261, one iteration
PrepareVector(chunk, uuid) ==
    [id       |-> generate_vector_id(Get(chunk, "source_type", ""), uuid),
     values   |-> Get(chunk, "embedding", <<>>),
     metadata |-> PrepareMetadata(chunk)]

\* the records of chunks_with_embeddings, ids drawn after uuid0
prepare_vectors_for_upsert(chunks_with_embeddings, uuid0) ==
    [i \in 1..Len(chunks_with_embeddings) |->
        PrepareVector(chunks_with_embeddings[i], uuid0 + i)]


-----------------------------------------------------------------------------
(* embed_chunks.  The embedding function is an oracle: for the chunk at    *)
(* position i it returns a vector of some length or raises.                *)

\* a vector of n floats
Vector(n) == [j \in 1..n |-> 0]

\* chunk_with_embedding = chunk.copy(); chunk_with_embedding["embedding"] = embedding
WithEmbedding(chunk, embedding) == ("embedding" :> embedding) @@ chunk

\* lines 249-251: the embedding is accepted
DimensionOk_NoCheck(embedding, dimension) == TRUE

DimensionOk(embedding, dimension) == Len(embedding) = dimension

\* lines 242-244: the chunk is skipped
IsEmptyText(text) == text = <<>>

\* lines 253-268: the call on chunk i ends the loop with EmbeddingError
\* (the function raised, or its vector has the wrong length)
EmbedFails(embedding_function, dimension, i) ==
    \/ embedding_function[i].kind # "vector"
    \/ ~DimensionOk(embedding_function[i].vector, dimension)

\* lines 238-272: the loop stops at the first chunk with text on which the
\* embedding function fails; calls lists the positions it was called on
embed_chunks(cs, embedding_function, dimension) ==
    LET called(i) == ~IsEmptyText(Get(cs[i], "text", <<>>))
        failing == {i \in 1..Len(cs) :
                       called(i) /\ EmbedFails(embedding_function, dimension, i)}
        last == IF failing = {} THEN Len(cs)
                ELSE CHOOSE i \in failing : \A j \in failing : i <= j
        calls == SelectSeq([i \in 1..last |-> i], called)
    IN  IF failing # {}
        THEN [raised |-> TRUE, error |-> "EmbeddingError",
              embedded_chunks |-> <<>>, calls |-> calls]
        ELSE [raised |-> FALSE, error |-> "",
              embedded_chunks |->
                 [j \in 1..Len(calls) |->
                     WithEmbedding(cs[calls[j]], embedding_function[calls[j]].vector)],
              calls |-> calls]

-----------------------------------------------------------------------------
(* upsert_vectors and the index.  The index is an oracle for the response  *)
(* of each upsert call; what it stores follows MockIndex.upsert.           *)

\* MockIndex.upsert: the records of the batch stored under their ids
StoreBatch(ns, batch) ==
    LET ids == {batch[j].id : j \in 1..Len(batch)}
        last(id) == CHOOSE j \in 1..Len(batch) :
                       /\ batch[j].id = id
                       /\ \A j2 \in (j + 1)..Len(batch) : batch[j2].id # id
    IN  [id \in DOMAIN ns \cup ids |-> IF id \in ids THEN batch[last(id)] ELSE ns[id]]

\* one index.upsert call: logged, and stored unless the call raises
IndexUpsert(index, batch, namespace, response) ==
    [calls |-> Append(index.calls,
                      [namespace |-> namespace, vectors |-> batch, response |-> response]),
     namespaces |->
        IF response.kind = "raise" THEN index.namespaces
        ELSE (namespace :> StoreBatch(Get(index.namespaces, namespace, EmptyDict), batch))
             @@ index.namespaces]

\* line 289: vectors[i:i + batch_size], i counted from 0
Batch_OneMore(vectors, i, batch_size) ==
    SubSeq(vectors, i + 1, Min(i + batch_size + 1, Len(vectors)))

Batch(vectors, i, batch_size) ==
    SubSeq(vectors, i + 1, Min(i + batch_size, Len(vectors)))

\* lines 299-308
BatchUpserted_Assumed(response, batch) == Len(batch)

BatchUpserted(response, batch) ==
    CASE response.kind = "mapping"       -> response.upserted_count
      [] response.kind = "mapping_nokey" -> Len(batch)
      [] response.kind = "object"        -> response.upserted_count
      [] OTHER                           -> Len(batch)

\* line 318: the handler of an exception raised by a batch's upsert call
UpsertFailed_Absorbed(index, total_upserted) ==
    [raised |-> FALSE, error |-> "", total_upserted |-> total_upserted,
     index |-> index]

UpsertFailed(index, total_upserted) ==
    [raised |-> TRUE, error |-> "PineconeError", total_upserted |-> 0,
     index |-> index]

\* lines 284-320; responses[k] is the index's answer to the k-th call
RECURSIVE UpsertLoop(_, _, _, _, _, _, _)
UpsertLoop(index, vectors, namespace, batch_size, responses, i, total_upserted) ==
    IF i >= Len(vectors)
    THEN [raised |-> FALSE, error |-> "", total_upserted |-> total_upserted,
          index |-> index]
    ELSE LET batch == Batch(vectors, i, batch_size)
             response == responses[(i \div batch_size) + 1]
             index1 == IndexUpsert(index, batch, namespace, response)
         IN  IF response.kind = "raise"
             THEN UpsertFailed(index1, total_upserted)
             ELSE UpsertLoop(index1, vectors, namespace, batch_size, responses,
                             i + batch_size,
                             total_upserted + BatchUpserted(response, batch))

upsert_vectors(index, vectors, namespace, batch_size, responses) ==
    UpsertLoop(index, vectors, namespace, batch_size, responses, 0, 0)

\* get_namespace_for_repo
get_namespace_for_repo(repo_name) == repo_name \o "-code"

-----------------------------------------------------------------------------
(* chunk_firecrawl_content.  content is a sequence of characters; Python   *)
(* indices count from 0 and a negative index counts from the end.          *)

Whitespace == {" ", "\n"}

\* how str slicing and str.rfind read an index of a str of length len
NormIndex(i, len) == IF i < 0 THEN Max(0, i + len) ELSE Min(i, len)

\* s[a:b]
Slice(s, a, b) ==
    LET lo == NormIndex(a, Len(s))
        hi == NormIndex(b, Len(s))
    IN  IF lo >= hi THEN <<>> ELSE SubSeq(s, lo + 1, hi)

\* s.rfind(ch, a, b)
RFind(s, ch, a, b) ==
    LET lo == NormIndex(a, Len(s))
        hi == NormIndex(b, Len(s))
        hits == {i \in lo..(hi - 1) : s[i + 1] = ch}
    IN  IF hits = {} THEN -1 ELSE CHOOSE i \in hits : \A j \in hits : j <= i

\* s.strip()
RECURSIVE LStrip(_)
LStrip(s) == IF s # <<>> /\ Head(s) \in Whitespace THEN LStrip(Tail(s)) ELSE s

RECURSIVE RStrip(_)
RStrip(s) ==
    IF s # <<>> /\ s[Len(s)] \in Whitespace THEN RStrip(SubSeq(s, 1, Len(s) - 1)) ELSE s

Strip(s) == RStrip(LStrip(s))

\* lines 538-549: the end position of the window that starts at st
WindowEnd_OneMore(s, st, size) ==
    LET end == st + size + 1
    IN  IF end < Len(s)
        THEN LET last_space == RFind(s, " ", st, end)
             IN  IF last_space # -1 THEN last_space ELSE end
        ELSE Len(s)

WindowEnd(s, st, size) ==
    LET end == st + size
    IN  IF end < Len(s)
        THEN LET last_space == RFind(s, " ", st, end)
             IN  IF last_space # -1 THEN last_space ELSE end
        ELSE Len(s)

\* line 558: the start position of the next window
NextStart_Skip(end, ov) == end - ov + 1

NextStart(end, ov) == end - ov

-----------------------------------------------------------------------------
(* validate_repository_ingestion.  The index is an oracle: a query raises, *)
(* or answers with matches of which one has a metadata string that         *)
(* contains the file path or is contained in it ("match"), or none has     *)
(* ("no_match").                                                           *)

SAMPLE_LIMIT == 5

QueryOutcomes == {"raise", "match", "no_match"}

\* line 97
SampleSize_All(n) == n

SampleSize(n) == Min(SAMPLE_LIMIT, n)

\* line 98: random.sample(file_paths, k), as the positions drawn
RandomSamples(n, k) ==
    {sq \in [1..k -> 1..n] : \A i, j \in 1..k : i # j => sq[i] # sq[j]}

\* lines 104-199: the queries issued for one file path (q1, then q2 when the
\* first finds no match) and the entries appended to validation_results
QueriesIssued_Always(q1, q2) == <<q1, q2>>

QueriesIssued(q1, q2) == IF q1 = "no_match" THEN <<q1, q2>> ELSE <<q1>>

PathEntries_RaiseDropped(file_path, q1, q2) ==
    CASE q1 = "raise" -> <<>>
      [] q1 = "match" -> <<[file_path |-> file_path, found |-> TRUE]>>
      [] OTHER ->
           IF q2 = "match"
           THEN <<[file_path |-> file_path, found |-> TRUE]>>
           ELSE <<[file_path |-> file_path, found |-> FALSE]>>

PathEntries_NoGuard(file_path, q1, q2) ==
    CASE q1 = "raise" -> <<[file_path |-> file_path, found |-> FALSE, error |-> TRUE]>>
      [] q1 = "match" -> <<[file_path |-> file_path, found |-> TRUE]>>
      [] OTHER ->
           IF q2 = "match"
           THEN <<[file_path |-> file_path, found |-> TRUE],
                  [file_path |-> file_path, found |-> FALSE]>>
           ELSE <<[file_path |-> file_path, found |-> FALSE]>>

PathEntries(file_path, q1, q2) ==
    CASE q1 = "raise" -> <<[file_path |-> file_path, found |-> FALSE, error |-> TRUE]>>
      [] q1 = "match" -> <<[file_path |-> file_path, found |-> TRUE]>>
      [] OTHER ->
           IF q2 = "match"
           THEN <<[file_path |-> file_path, found |-> TRUE]>>
           ELSE <<[file_path |-> file_path, found |-> FALSE]>>

\* line 202
FoundCount(results) == Len(SelectSeq(results, LAMBDA r : Get(r, "found", FALSE)))

\* line 208: found_count / len(validation_results) >= 0.6, in fifths
RateAtLeastThreshold_Strict(found_count, total) == 5 * found_count > 3 * total

RateAtLeastThreshold(found_count, total) == 5 * found_count >= 3 * total

\* lines 201-213; success_rate is the fraction found_count / total
ValidationResult(results) ==
    LET found_count == FoundCount(results)
        total == Len(results)
    IN  [success |-> IF total = 0 THEN FALSE
                     ELSE RateAtLeastThreshold(found_count, total),
         success_rate |-> IF total = 0 THEN <<0, 1>> ELSE <<found_count, total>>,
         found_count |-> found_count,
         total_count |-> total,
         results |-> results]

-----------------------------------------------------------------------------
(* run_pipeline.  A content stream is a chunk sequence that is embedded,   *)
(* packaged and upserted: "repo" (step 5), "enriched" (step 10) and "web"  *)
(* (step 11).                                                              *)

\* lines 105, 205, 226: the namespace a stream is upserted to
StreamNamespace(stream, namespace) ==
    IF stream = "enriched" THEN namespace \o "-enriched" ELSE namespace

\* lines 192-215: the try block around step 10 catches what the enriched
\* stream raises; steps 5 and 11 are only inside the outer try of line 54
Absorbs_All(stream) == TRUE

Absorbs(stream) == stream = "enriched"

\* lines 102-106, 200-206, 223-226: a stream is embedded, then packaged,
\* then upserted, each call on the whole sequence the one before returned
NextStage_Overlap(stage) == "upsert"

NextStage(stage) == IF stage = "embed" THEN "package" ELSE "upsert"

\* lines 233-269: what step 12 keeps of a validation that returned v, or
\* that raised (the handler of lines 264-269)
ValidationOutcome_Unchecked(returned, v) ==
    IF returned THEN v ELSE [success |-> TRUE, error |-> "raised"]

ValidationOutcome(returned, v) ==
    IF returned THEN v ELSE [success |-> FALSE, error |-> "raised"]

\* where the run goes on after a stream
AfterStream(stream) ==
    CASE stream = "repo"     -> "fetch"
      [] stream = "enriched" -> "web"
      [] OTHER               -> "validate"

\* enrich_content_with_research: a copy of each chunk with the research
\* context in its metadata
EnrichChunk(chunk, research_results) ==
    ("metadata" :> [research_context |-> research_results]) @@ chunk

enrich_content_with_research(content_chunks, research_results) ==
    [i \in 1..Len(content_chunks) |-> EnrichChunk(content_chunks[i], research_results)]

\* process_firecrawl_results, lines 584-592: the content of one result, a
\* str, a dict with a markdown entry, or whatever the content entry holds
ResultContent(result) ==
    LET c == Get(result, "content", [kind |-> "str", text |-> <<>>])
    IN  IF c.kind = "str" THEN c.text
        ELSE IF c.kind = "dict" /\ "markdown" \in DOMAIN c THEN c.markdown
        ELSE <<>>

\* lines 594-618: the chunk of one result
ResultChunk(result) ==
    LET url == Get(result, "url", <<>>)
        source_type == Get(result, "source_type", "web")
    IN  [text |-> ResultContent(result),
         metadata |-> [url |-> url, title |-> Get(result, "title", <<>>),
                       source_type |-> source_type],
         source_type |-> source_type,
         url |-> url]

\* lines 567-625: one chunk per result with content, whatever its length
\* (max_chunk_size and overlap are not read)
process_firecrawl_results(results) ==
    LET kept == SelectSeq(results, LAMBDA r : ResultContent(r) # <<>>)
    IN  [i \in 1..Len(kept) |-> ResultChunk(kept[i])]

\* lines 271-299: the returned dict (the keys index_name, urls_extracted and
\* deep_research_topics, which depend on nothing a stage writes, are left out)
PipelineResults(args, namespace, repo_chunks, web_chunks, upserts, validation) ==
    LET repo_total == Get(upserts, "repo", 0)
        web_total == Get(upserts, "web", 0)
        results == [repository |-> args.repo_name,
                    namespace |-> namespace,
                    repo_chunks |-> Len(repo_chunks),
                    repo_vectors_upserted |-> repo_total,
                    total_vectors_upserted |-> repo_total,
                    validation_results |-> validation]
    IN  IF ~args.no_firecrawl
        THEN [firecrawl_chunks |-> Len(web_chunks),
              firecrawl_vectors_upserted |-> web_total,
              total_vectors_upserted |-> results.total_vectors_upserted + web_total]
             @@ results
        ELSE results

-----------------------------------------------------------------------------
(* Initial state: every component idle *)

Init ==
    /\ pk_pc = "idle" /\ pk_chunks = <<>> /\ pk_vectors = <<>>
    /\ em_pc = "idle" /\ em_chunks = <<>> /\ em_dimension = 0
    /\ em_result = [raised |-> FALSE, error |-> "", embedded_chunks |-> <<>>,
                    calls |-> <<>>]
    /\ up_pc = "idle" /\ up_vectors = <<>> /\ up_batch_size = 0
    /\ up_result = [raised |-> FALSE, error |-> "", total_upserted |-> 0]
    /\ up_index = [calls |-> <<>>, namespaces |-> EmptyDict]
    /\ ch_pc = "idle" /\ content = <<>> /\ max_chunk_size = 0 /\ overlap = 0
    /\ start = 0 /\ chunks = <<>>
    /\ va_pc = "idle" /\ file_paths = <<>> /\ sample_paths = <<>> /\ va_i = 0
    /\ validation_results = <<>> /\ va_queries = <<>> /\ va_result = EmptyDict
    /\ pl_pc = "idle" /\ pl_args = EmptyDict /\ pl_repo_chunks = <<>>
    /\ pl_web_chunks = <<>>
    /\ pl_index = [calls |-> <<>>, namespaces |-> EmptyDict]
    /\ pl_work = [stream |-> "", chunks |-> <<>>, vectors |-> <<>>, uuid |-> 0]
    /\ pl_log = <<>> /\ pl_upserts = EmptyDict /\ pl_validation = EmptyDict
    /\ pl_outcome = [kind |-> "running"]
    /\ ri_runs = 0 /\ ri_uuid = 0 /\ ri_history = <<>>
    /\ ri_index = [calls |-> <<>>, namespaces |-> EmptyDict]
    /\ rx_pc = "idle" /\ rx_dump = EmptyDict /\ rx_result = EmptyDict
    /\ co_uuid = 0 /\ co_log = <<>>
    /\ co_index = [calls |-> <<>>, namespaces |-> EmptyDict]
    /\ se_pc = "idle" /\ se_dimension = 0 /\ se_text = <<>> /\ se_vector = <<>>
    /\ se_result = [raised |-> FALSE, error |-> "", embedded_chunks |-> <<>>,
                    calls |-> <<>>]
    /\ sw_pc = "idle" /\ sw_input = EmptyDict /\ sw_result = EmptyDict
    /\ su_pc = "idle" /\ su_args = EmptyDict /\ su_i = 0 /\ retries = 0
    /\ success = FALSE /\ su_results = <<>> /\ su_log = <<>>
    /\ pf_pc = "idle" /\ pf_results = <<>> /\ pf_chunks = <<>>
    /\ ex_pc = "idle"
    /\ ex_lines = <<>>
    /\ ex_file_paths = <<>>
    /\ ex_fallback = FALSE
    /\ ex_result = [success |-> TRUE]

-----------------------------------------------------------------------------
(* Packager runs: prepare_vectors_for_upsert on one or two embedded chunks *)

PathLen == 4
Margin == 30
Slack == 32
MaxTail == 1

PkSourceTypes == {"repository", "firecrawl", "web"}

PkPaths == {<<Run("ascii", PathLen)>>, <<Run("ascii", MAX_METADATA_SIZE)>>}

\* text lengths: short ones and those at the byte budget
TextCounts(c) ==
    {1, 2} \cup {((MAX_METADATA_SIZE - Margin) \div Utf8Bytes(c)) - d : d \in 0..Slack}

PkTexts ==
    {<<>>}
    \cup UNION {{<<Run(c, n)>> : n \in TextCounts(c)} : c \in Classes}
    \cup UNION {{<<Run(ct[1], n), Run(ct[2], m)>> :
                    n \in TextCounts(ct[1]), m \in 1..MaxTail} :
                 ct \in {x \in Classes \X Classes : x[1] # x[2]}}

\* the optional keys a chunk may carry besides text and embedding
PkShapes ==
    {EmptyDict}
    \cup {[source_type |-> st] : st \in PkSourceTypes}
    \cup {[source_type |-> st, file_path |-> p] : st \in PkSourceTypes, p \in PkPaths}
    \cup {[source_type |-> st, source_url |-> p] : st \in PkSourceTypes, p \in PkPaths}

PkEmbedding == <<0, 0>>

PkChunk(shape, text) == shape @@ [text |-> text, embedding |-> PkEmbedding]

\* a second chunk of the same call
PkSecond == {PkChunk([source_type |-> "repository", file_path |-> <<Run("ascii", PathLen)>>],
                     <<Run("ascii", 2)>>)}

PkRun ==
    /\ pk_pc = "idle"
    /\ \E shape \in PkShapes, text \in PkTexts, more \in SeqUpTo(PkSecond, 1) :
          /\ pk_chunks' = <<PkChunk(shape, text)>> \o more
          /\ pk_vectors' = prepare_vectors_for_upsert(pk_chunks', 0)
    /\ pk_pc' = "done"
    /\ UNCHANGED <<emVars, upVars, chVars, vaVars, plVars, riVars, rxVars, coVars, seVars, swVars, suVars, pfVars, exVars>>

NextPackager == PkRun

SpecPackager == Init /\ [][NextPackager]_vars

\* C1: every record returned by prepare_vectors_for_upsert has a metadata
\* mapping whose JSON serialization is at most 40*1024 bytes.
C1_MetadataWithinLimit ==
    \A i \in 1..Len(pk_vectors) :
        MetadataSize(pk_vectors[i].metadata) <= 40 * 1024

\* C23: prepare_vectors_for_upsert sets truncated exactly when the UTF-8
\* length of the chunk text exceeds 40*1024 minus the serialized size of the
\* non-text metadata minus 10; the stored text is then a prefix of the
\* original of at most that many bytes; otherwise the stored text is the
\* original and truncated is absent.
C23_TruncatedExactlyWhenOver ==
    \A i \in 1..Len(pk_vectors) :
        LET text == Get(pk_chunks[i], "text", <<>>)
            space == MAX_METADATA_SIZE - MetadataSize(BaseMetadata(pk_chunks[i])) - 10
            metadata == pk_vectors[i].metadata
        IN  IF Utf8Len(text) > space
            THEN /\ "truncated" \in DOMAIN metadata
                 /\ metadata["truncated"] = TRUE
                 /\ IsPrefix(metadata["text"], text)
                 /\ Utf8Len(metadata["text"]) <= space
            ELSE /\ "truncated" \notin DOMAIN metadata
                 /\ metadata["text"] = text

-----------------------------------------------------------------------------
(* Embedding runs: embed_chunks on a chunk sequence *)

MaxChunks == 3
MaxDimension == 2

EmChunks ==
    {[source_type |-> "repository", file_path |-> <<Run("ascii", PathLen)>>],
     [source_type |-> "repository", file_path |-> <<Run("ascii", PathLen)>>,
      text |-> <<>>],
     [source_type |-> "repository", file_path |-> <<Run("ascii", PathLen)>>,
      text |-> <<Run("ascii", 1)>>],
     [source_type |-> "web", url |-> <<Run("ascii", PathLen)>>,
      text |-> <<Run("ascii", 2)>>]}

\* what an embedding function may do on one call
EmOutcomes ==
    {[kind |-> "vector", vector |-> Vector(n)] : n \in 0..(MaxDimension + 1)}
    \cup {[kind |-> "raise_embedding_error"], [kind |-> "raise_other"]}

EmRun ==
    /\ em_pc = "idle"
    /\ \E cs \in SeqUpTo(EmChunks, MaxChunks), dimension \in 1..MaxDimension :
         \E embedding_function \in [1..Len(cs) -> EmOutcomes] :
            /\ em_chunks' = cs
            /\ em_dimension' = dimension
            /\ em_result' = embed_chunks(cs, embedding_function, dimension)
    /\ em_pc' = "done"
    /\ UNCHANGED <<pkVars, upVars, chVars, vaVars, plVars, riVars, rxVars, coVars, seVars, swVars, suVars, pfVars, exVars>>

NextEmbed == EmRun

SpecEmbed == Init /\ [][NextEmbed]_vars

WithoutEmbedding(e) == [k \in DOMAIN e \ {"embedding"} |-> e[k]]

HasText(c) == "text" \in DOMAIN c /\ c["text"] # <<>>

\* C2: embed_chunks either raises EmbeddingError or returns exactly one
\* embedded chunk per input chunk with non-empty text, in input order, each
\* with an embedding of length dimension.
C2_EmbedAllOrError ==
    em_pc = "done" =>
        LET kept == SelectSeq(em_chunks, HasText)
            out == em_result.embedded_chunks
        IN  \/ em_result.raised /\ em_result.error = "EmbeddingError"
            \/ /\ ~em_result.raised
               /\ Len(out) = Len(kept)
               /\ \A j \in 1..Len(out) :
                    /\ WithoutEmbedding(out[j]) = kept[j]
                    /\ Len(out[j]["embedding"]) = em_dimension

C2_Witness ==
    /\ em_pc = "done"
    /\ ~em_result.raised
    /\ Len(em_result.embedded_chunks) = 2
    /\ Len(em_chunks) = 3

-----------------------------------------------------------------------------
(* Upsert runs: upsert_vectors on N records with batch size B *)

MaxVectors == 4
MaxBatchSize == 3
MaxShort == 1
ScenarioRecords == 250
DEFAULT_BATCH_SIZE == 100

UpVector(i) ==
    [id |-> generate_vector_id("repository", i), values |-> Vector(1),
     metadata |-> [source_type |-> "repository"]]

UpVectors(n) == [i \in 1..n |-> UpVector(i)]

NumBatches(n, b) == (n + b - 1) \div b

UpSizes ==
    ((0..MaxVectors) \X (1..MaxBatchSize)) \cup {<<ScenarioRecords, DEFAULT_BATCH_SIZE>>}

\* what the index may do on one upsert call: answer with a count that is
\* short of the batch length by `short`, answer without a count, or raise
UpOracle ==
    {[kind |-> k, short |-> sh] : k \in {"mapping", "object"}, sh \in 0..MaxShort}
    \cup {[kind |-> "mapping_nokey"], [kind |-> "opaque"], [kind |-> "raise"]}

\* the oracle's choices for a run on n records
UpOracleFor(n) ==
    IF n <= MaxVectors THEN UpOracle
    ELSE {[kind |-> "mapping", short |-> 0], [kind |-> "object", short |-> 0],
          [kind |-> "opaque"], [kind |-> "raise"]}

Response(o, len) ==
    IF o.kind \in {"mapping", "object"}
    THEN [kind |-> o.kind, upserted_count |-> Max(0, len - o.short)]
    ELSE [kind |-> o.kind]

Responses(oracle, vectors, batch_size) ==
    [k \in DOMAIN oracle |->
        Response(oracle[k], Len(Batch(vectors, (k - 1) * batch_size, batch_size)))]

UpNamespace == get_namespace_for_repo("repo")

UpRun ==
    /\ up_pc = "idle"
    /\ \E nb \in UpSizes :
         \E oracle \in [1..NumBatches(nb[1], nb[2]) -> UpOracleFor(nb[1])] :
            LET vectors == UpVectors(nb[1])
                r == upsert_vectors(up_index, vectors, UpNamespace, nb[2],
                                    Responses(oracle, vectors, nb[2]))
            IN  /\ up_vectors' = vectors
                /\ up_batch_size' = nb[2]
                /\ up_result' = [raised |-> r.raised, error |-> r.error,
                                 total_upserted |-> r.total_upserted]
                /\ up_index' = r.index
    /\ up_pc' = "done"
    /\ UNCHANGED <<pkVars, emVars, chVars, vaVars, plVars, riVars, rxVars, coVars, seVars, swVars, suVars, pfVars, exVars>>

NextUpsert == UpRun

SpecUpsert == Init /\ [][NextUpsert]_vars

UpBatches == [k \in 1..Len(up_index.calls) |-> up_index.calls[k].vectors]

\* the response of call k acknowledges every record of its batch
AcksOwnLength(call) ==
    /\ call.response.kind \in {"mapping", "object"}
    /\ call.response.upserted_count = Len(call.vectors)

\* C4: the upsert calls carry contiguous batches in input order, all of
\* batch_size records except possibly the last (1..batch_size); a run that
\* returns issued ceil(N/B) calls whose concatenation is the input; N = 0
\* issues no call and reports 0; N = 250, B = 100 gives calls of 100, 100, 50
\* and a total of 250 when every batch acknowledges its own length.
C4_ContiguousBatches ==
    up_pc = "done" =>
        LET n == Len(up_vectors)
            b == up_batch_size
            calls == up_index.calls
            sent == Concat(UpBatches)
        IN  /\ sent = SubSeq(up_vectors, 1, Len(sent))
            /\ \A k \in 1..Len(calls) :
                 /\ k < Len(calls) => Len(UpBatches[k]) = b
                 /\ Len(UpBatches[k]) >= 1 /\ Len(UpBatches[k]) <= b
            /\ ~up_result.raised =>
                 /\ Len(calls) = NumBatches(n, b)
                 /\ sent = up_vectors
            /\ n = 0 => calls = <<>> /\ up_result.total_upserted = 0 /\ ~up_result.raised
            /\ (n = 250 /\ b = 100 /\ ~up_result.raised) =>
                 /\ [k \in 1..Len(calls) |-> Len(UpBatches[k])] = <<100, 100, 50>>
                 /\ (\A k \in 1..Len(calls) : AcksOwnLength(calls[k]))
                      => up_result.total_upserted = 250

C4_Witness ==
    /\ up_pc = "done"
    /\ Len(up_vectors) = 250 /\ up_batch_size = 100
    /\ Len(up_index.calls) = 3
    /\ up_result.total_upserted = 250
    /\ \A k \in 1..3 : AcksOwnLength(up_index.calls[k])

\* C6: total_upserted is the sum of the batches' acknowledged counts (the
\* response's count when it carries one, the batch length otherwise), and
\* only a raising call keeps later batches from being issued.
C6_SumOfAcks ==
    up_pc = "done" =>
        LET calls == up_index.calls
            ack == [k \in 1..Len(calls) |->
                      IF calls[k].response.kind \in {"mapping", "object"}
                      THEN calls[k].response.upserted_count
                      ELSE Len(calls[k].vectors)]
        IN  /\ ~up_result.raised => up_result.total_upserted = SumSeq(ack)
            /\ Len(calls) < NumBatches(Len(up_vectors), up_batch_size)
                 => calls[Len(calls)].response.kind = "raise"
            /\ up_result.raised <=>
                 \E k \in 1..Len(calls) : calls[k].response.kind = "raise"

\* a partial acknowledgment by the first batch, and the later batches issued
C6_Witness ==
    /\ up_pc = "done"
    /\ ~up_result.raised
    /\ Len(up_index.calls) = 3
    /\ up_index.calls[1].response.kind = "mapping"
    /\ up_index.calls[1].response.upserted_count < Len(up_index.calls[1].vectors)
    /\ up_index.calls[3].response.kind = "opaque"
    /\ up_result.total_upserted < Len(up_vectors)

-----------------------------------------------------------------------------
(* Chunker runs: chunk_firecrawl_content(content, max_chunk_size, overlap) *)

MaxLen == 5
MaxSize == 3
MaxOverlap == 3

Alphabet == {"a", "b", " ", "\n"}

\* The loop is followed no further once the list of pieces has outgrown every
\* terminating run or the window start has fallen below every window that
\* reads the text.  Only calls with overlap >= 1 get there, and those never
\* leave the loop: their last window ends at len(content), so the next start
\* is len(content) - overlap < len(content).
PieceCap == MaxLen + 2

ChDiverged ==
    \/ Len(chunks) >= PieceCap
    \/ start < 0 - (Len(content) + max_chunk_size + overlap)

\* lines 531-536
ChCall ==
    /\ ch_pc = "idle"
    /\ \E text \in SeqUpTo(Alphabet, MaxLen), size \in 1..MaxSize, ov \in 0..MaxOverlap :
          /\ content' = text
          /\ max_chunk_size' = size
          /\ overlap' = ov
          /\ IF Len(text) <= size
             THEN chunks' = <<text>> /\ ch_pc' = "done"
             ELSE chunks' = <<>> /\ ch_pc' = "loop"
    /\ start' = 0
    /\ UNCHANGED <<pkVars, emVars, upVars, vaVars, plVars, riVars, rxVars, coVars, seVars, swVars, suVars, pfVars, exVars>>

\* line 538: the loop condition holds
ChEnter ==
    /\ ch_pc = "loop"
    /\ start < Len(content)
    /\ ~ChDiverged
    /\ ch_pc' = "body"
    /\ UNCHANGED <<content, max_chunk_size, overlap, start, chunks>>
    /\ UNCHANGED <<pkVars, emVars, upVars, vaVars, plVars, riVars, rxVars, coVars, seVars, swVars, suVars, pfVars, exVars>>

\* lines 539-558: the body of the while loop
ChBody ==
    /\ ch_pc = "body"
    /\ LET end == WindowEnd(content, start, max_chunk_size)
           chunk == Strip(Slice(content, start, end))
       IN  /\ chunks' = IF chunk # <<>> THEN Append(chunks, chunk) ELSE chunks
           /\ start' = NextStart(end, overlap)
    /\ ch_pc' = "loop"
    /\ UNCHANGED <<content, max_chunk_size, overlap>>
    /\ UNCHANGED <<pkVars, emVars, upVars, vaVars, plVars, riVars, rxVars, coVars, seVars, swVars, suVars, pfVars, exVars>>

\* the model follows a diverging loop no further
ChOverflow ==
    /\ ch_pc = "loop"
    /\ start < Len(content)
    /\ ChDiverged
    /\ ch_pc' = "overflow"
    /\ UNCHANGED <<content, max_chunk_size, overlap, start, chunks>>
    /\ UNCHANGED <<pkVars, emVars, upVars, vaVars, plVars, riVars, rxVars, coVars, seVars, swVars, suVars, pfVars, exVars>>

\* lines 538, 560-562: the loop ends and the pieces are returned
ChReturn ==
    /\ ch_pc = "loop"
    /\ start >= Len(content)
    /\ ch_pc' = "done"
    /\ UNCHANGED <<content, max_chunk_size, overlap, start, chunks>>
    /\ UNCHANGED <<pkVars, emVars, upVars, vaVars, plVars, riVars, rxVars, coVars, seVars, swVars, suVars, pfVars, exVars>>

NextChunker == ChCall \/ ChEnter \/ ChBody \/ ChOverflow \/ ChReturn

SpecChunker == Init /\ [][NextChunker]_vars

\* the interpreter keeps executing the loop
SpecChunkerFair == SpecChunker /\ WF_vars(NextChunker)

\* C7: chunk_firecrawl_content returns for every input, and while
\* 0 <= overlap < max_chunk_size every iteration moves the window start
\* strictly forward.
C7_TerminatesAdvancing ==
    /\ [][(ch_pc = "body" /\ overlap < max_chunk_size) => start' > start]_vars
    /\ <>(ch_pc \in {"done", "overflow"})

\* C8: for a text longer than max_chunk_size every piece in the output is
\* non-empty and at most max_chunk_size long.
C8_PiecesBounded ==
    Len(content) > max_chunk_size =>
        \A k \in 1..Len(chunks) :
            Len(chunks[k]) >= 1 /\ Len(chunks[k]) <= max_chunk_size

C8_Witness ==
    /\ ch_pc = "done"
    /\ Len(content) > max_chunk_size
    /\ Len(chunks) >= 2
    /\ \E k \in 1..Len(chunks) : Len(chunks[k]) = max_chunk_size /\ max_chunk_size > 1

NonWhitespace(s) == SelectSeq(s, LAMBDA c : c \notin Whitespace)

\* s[k + 1:]
DropFirst(s, k) == SubSeq(s, Min(k, Len(s)) + 1, Len(s))

\* the pieces with the overlap repeated at the head of every later piece removed
WithoutOverlap(ps, ov) ==
    [k \in 1..Len(ps) |-> IF k = 1 THEN ps[k] ELSE DropFirst(ps[k], ov)]

IsSubstring(p, s) ==
    \E a \in 0..(Len(s) - Len(p)) : SubSeq(s, a + 1, a + Len(p)) = p

-----------------------------------------------------------------------------
(* Validator runs: validate_repository_ingestion on a listing that yields  *)
(* n candidate paths (the paths are numbered 1..n)                         *)

MaxCandidates == 6

\* lines 37-43: the dump is missing
VaFileNotFound ==
    /\ va_pc = "idle"
    /\ va_result' = [success |-> FALSE, error |-> "Repomix output file not found"]
    /\ va_pc' = "done"
    /\ UNCHANGED <<file_paths, sample_paths, va_i, validation_results, va_queries>>
    /\ UNCHANGED <<pkVars, emVars, upVars, chVars, plVars, riVars, rxVars, coVars, seVars, swVars, suVars, pfVars, exVars>>

\* lines 45-98: the candidates are extracted and the sample is drawn
VaSample ==
    /\ va_pc = "idle"
    /\ \E n \in 0..MaxCandidates :
          /\ file_paths' = [i \in 1..n |-> i]
          /\ IF n = 0
             THEN /\ va_result' = [success |-> FALSE,
                                   error |-> "No file paths found in Repomix output"]
                  /\ sample_paths' = <<>>
                  /\ va_pc' = "done"
             ELSE /\ \E sq \in RandomSamples(n, SampleSize(n)) :
                        sample_paths' = [i \in DOMAIN sq |-> file_paths'[sq[i]]]
                  /\ va_result' = va_result
                  /\ va_pc' = "query"
    /\ UNCHANGED <<va_i, validation_results, va_queries>>
    /\ UNCHANGED <<pkVars, emVars, upVars, chVars, plVars, riVars, rxVars, coVars, seVars, swVars, suVars, pfVars, exVars>>

\* lines 104-199: one iteration of the loop over sample_paths
VaCheckPath ==
    /\ va_pc = "query"
    /\ va_i < Len(sample_paths)
    /\ \E q1 \in QueryOutcomes :
       \E q2 \in IF q1 = "no_match" THEN QueryOutcomes ELSE {"unused"} :
          LET file_path == sample_paths[va_i + 1]
          IN  /\ validation_results' =
                    validation_results \o PathEntries(file_path, q1, q2)
              /\ va_queries' = QueriesIssued(q1, q2)
    /\ va_i' = va_i + 1
    /\ UNCHANGED <<va_pc, file_paths, sample_paths, va_result>>
    /\ UNCHANGED <<pkVars, emVars, upVars, chVars, plVars, riVars, rxVars, coVars, seVars, swVars, suVars, pfVars, exVars>>

\* lines 201-213
VaReturn ==
    /\ va_pc = "query"
    /\ va_i = Len(sample_paths)
    /\ va_result' = ValidationResult(validation_results)
    /\ va_pc' = "done"
    /\ UNCHANGED <<file_paths, sample_paths, va_i, validation_results, va_queries>>
    /\ UNCHANGED <<pkVars, emVars, upVars, chVars, plVars, riVars, rxVars, coVars, seVars, swVars, suVars, pfVars, exVars>>

NextValidator == VaFileNotFound \/ VaSample \/ VaCheckPath \/ VaReturn

SpecValidator == Init /\ [][NextValidator]_vars

\* C10: the validator samples min(5, candidates) paths without replacement
\* and its result holds exactly one entry per sampled path, so that
\* total_count = min(5, candidates) and 0 <= found_count <= total_count;
\* with no candidate nothing is sampled and the result has no entries.
C10_OneEntryPerSample ==
    LET n == Len(file_paths)
        k == IF n < 5 THEN n ELSE 5
    IN  /\ va_pc # "idle" =>
              /\ Len(sample_paths) = k
              /\ \A i, j \in 1..Len(sample_paths) :
                    i # j => sample_paths[i] # sample_paths[j]
              /\ \A i \in 1..Len(sample_paths) :
                    \E p \in 1..n : file_paths[p] = sample_paths[i]
        /\ (va_pc = "done" /\ n >= 1) =>
              /\ Len(va_result.results) = k
              /\ \A i \in 1..k : va_result.results[i].file_path = sample_paths[i]
              /\ va_result.total_count = k
              /\ va_result.found_count >= 0
              /\ va_result.found_count <= va_result.total_count
        /\ (va_pc = "done" /\ n = 0) =>
              /\ validation_results = <<>>
              /\ "results" \notin DOMAIN va_result

\* five of six candidates sampled, the last found on its second query, one query raised
C10_Witness ==
    /\ va_pc = "done"
    /\ Len(file_paths) = 6
    /\ va_result.total_count = 5
    /\ va_result.found_count = 1
    /\ Len(va_queries) = 2 /\ va_result.results[5].found
    /\ \E i \in 1..5 : "error" \in DOMAIN va_result.results[i]

\* C11: when at least one path was sampled, the result reports success_rate
\* = found_count / total_count, and success is true exactly when
\* 5 * found_count >= 3 * total_count (so 3 of 5, 3 of 4, 2 of 3, 2 of 2 and
\* 1 of 1 succeed, 2 of 5, 2 of 4, 1 of 3, 1 of 2 and 0 of 1 do not).
C11_SuccessRateThreshold ==
    (va_pc = "done" /\ Len(sample_paths) >= 1) =>
        LET f == va_result.found_count
            t == va_result.total_count
        IN  /\ t >= 1
            /\ f = Len(SelectSeq(validation_results, LAMBDA r : r.found))
            /\ va_result.success_rate = <<f, t>>
            /\ va_result.success <=> 5 * f >= 3 * t
            /\ <<f, t>> \in {<<3, 5>>, <<3, 4>>, <<2, 3>>, <<2, 2>>, <<1, 1>>}
                  => va_result.success
            /\ <<f, t>> \in {<<2, 5>>, <<2, 4>>, <<1, 3>>, <<1, 2>>, <<0, 1>>}
                  => ~va_result.success

\* exactly 3 of 5 sampled paths found: the rate is on the threshold
C11_Witness ==
    /\ va_pc = "done"
    /\ Len(sample_paths) = 5
    /\ va_result.found_count = 3
    /\ va_result.success

\* C12: a query that raises for one sampled path is recorded as found =
\* false for that path and does not abort the validation: every sampled
\* path gets its turn and the function returns its result.
C12_QueryFailureRecorded ==
    /\ (va_i >= 1 /\ \E q \in 1..Len(va_queries) : va_queries[q] = "raise") =>
          /\ Len(validation_results) = va_i
          /\ validation_results[va_i].file_path = sample_paths[va_i]
          /\ ~validation_results[va_i].found
          /\ va_pc \in {"query", "done"}
    /\ \A i \in 1..Len(validation_results) :
          "error" \in DOMAIN validation_results[i] => ~validation_results[i].found
    /\ (va_pc = "done" /\ Len(sample_paths) >= 1) =>
          /\ va_i = Len(sample_paths)
          /\ va_result.results = validation_results
          /\ \A i \in 1..Len(sample_paths) :
                validation_results[i].file_path = sample_paths[i]

\* the first query of the first path and the second query of the last path
\* raised, a path between them was found, and the result was returned
C12_Witness ==
    /\ va_pc = "done"
    /\ Len(sample_paths) >= 3
    /\ "error" \in DOMAIN va_result.results[1]
    /\ va_queries = <<"no_match", "raise">>
    /\ va_result.found_count >= 1
    /\ va_result.total_count = Len(sample_paths)

\* C28: for each sampled path the validator issues the first query, issues
\* the second exactly when the first returned without a match, and never
\* more than two; the path is recorded as found exactly when the last query
\* issued for it found a match, so a second query that raises leaves it
\* recorded as not found.
C28_SecondQueryOnlyAfterNoMatch ==
    (va_pc \in {"query", "done"} /\ va_i >= 1) =>
        /\ Len(va_queries) \in {1, 2}
        /\ Len(va_queries) = 2 <=> va_queries[1] = "no_match"
        /\ Len(validation_results) = va_i
        /\ validation_results[va_i].found
               <=> va_queries[Len(va_queries)] = "match"
        /\ (Len(va_queries) = 2 /\ va_queries[2] = "raise") =>
               /\ ~validation_results[va_i].found
               /\ validation_results[va_i].file_path = sample_paths[va_i]

\* the second query of a path has just raised
C28_Witness ==
    /\ va_pc = "query"
    /\ va_i >= 1
    /\ va_queries = <<"no_match", "raise">>
    /\ Len(validation_results) = va_i
    /\ ~validation_results[va_i].found
    /\ "error" \notin DOMAIN validation_results[va_i]

-----------------------------------------------------------------------------
(* Pipeline runs: run_pipeline on a repository of a few chunks, or of one  *)
(* chunk more than a batch holds, with the embedding function, the index,  *)
(* the web fetch, the research call and the validator as oracles           *)

MaxRepoChunks == 2
MaxWebChunks == 1
ScenarioShort == 50
ScenarioLong == 5000
ScenarioMaxSize == 2000

PlRepoChunks ==
    {[text |-> <<Run("ascii", 1)>>, source_type |-> "repository",
      file_path |-> <<Run("ascii", PathLen)>>],
     [text |-> <<>>, source_type |-> "repository",
      file_path |-> <<Run("ascii", PathLen)>>]}

\* one chunk more than a batch of the default size
BulkCorpus ==
    [i \in 1..(DEFAULT_BATCH_SIZE + 1) |->
        [text |-> <<Run("ascii", 1)>>, source_type |-> "repository",
         file_path |-> <<Run("ascii", PathLen)>>]]

\* two files of ScenarioShort and ScenarioLong characters
ScenarioCorpus ==
    <<[text |-> <<Run("ascii", ScenarioShort)>>, source_type |-> "repository",
       file_path |-> <<Run("ascii", PathLen)>>],
      [text |-> <<Run("ascii", ScenarioLong)>>, source_type |-> "repository",
       file_path |-> <<Run("ascii", PathLen + 1)>>]>>

\* parse_repomix_output, lines 122-139: a file element whose text is spaces
BlankCorpus ==
    <<[text |-> <<Run("space", 3)>>, source_type |-> "repository",
       file_path |-> <<Run("ascii", PathLen)>>]>>

PlCorpora ==
    SeqUpTo(PlRepoChunks, MaxRepoChunks) \cup {BulkCorpus, ScenarioCorpus, BlankCorpus}

\* what scrape_urls or search_web_content hands to process_firecrawl_results:
\* a page of ScenarioLong characters, as a str or as markdown, or no content
PlResults ==
    {[url |-> <<Run("ascii", PathLen)>>,
      content |-> [kind |-> "str", text |-> <<Run("ascii", ScenarioLong)>>]],
     [url |-> <<Run("ascii", PathLen)>>,
      content |-> [kind |-> "dict", markdown |-> <<Run("ascii", ScenarioLong)>>]],
     [url |-> <<Run("ascii", PathLen)>>]}

\* the embedding function on one call: a vector of the configured length,
\* one too long, one too short, or an exception
PlEmOutcomes(dimension) ==
    {[kind |-> "vector", vector |-> Vector(n)] :
        n \in {dimension - 1, dimension, dimension + 1}}
    \cup {[kind |-> "raise_other"]}

\* the embedding functions of a run on n chunks; on a bulk corpus only the
\* last call may go wrong
PlEmbeddingFunctions(n, dimension) ==
    IF n <= MaxRepoChunks + MaxWebChunks
    THEN [1..n -> PlEmOutcomes(dimension)]
    ELSE {[i \in 1..n |-> IF i = n THEN o ELSE [kind |-> "vector", vector |-> Vector(dimension)]] :
            o \in PlEmOutcomes(dimension)}

PlUpOracle ==
    {[kind |-> "mapping", short |-> 0], [kind |-> "mapping", short |-> 1],
     [kind |-> "opaque"], [kind |-> "raise"]}

\* what validate_repository_ingestion may hand back to step 12
PlValidations ==
    {[success |-> FALSE, error |-> "No file paths found in Repomix output"],
     ValidationResult(<<[file_path |-> 1, found |-> TRUE]>>),
     ValidationResult(<<[file_path |-> 1, found |-> FALSE]>>)}

PlNamespace == get_namespace_for_repo(pl_args.repo_name)

PlLogged(events) == pl_log' = pl_log \o events

\* an exception raised while a stream is processed: caught by the handler of
\* lines 213-215, or by the one of lines 302-304
PlRaise(stream, events) ==
    IF Absorbs(stream)
    THEN /\ PlLogged(events \o <<[op |-> "absorbed", stream |-> stream]>>)
         /\ pl_pc' = AfterStream(stream)
         /\ pl_outcome' = pl_outcome
    ELSE /\ PlLogged(events)
         /\ pl_pc' = "done"
         /\ pl_outcome' = [kind |-> "PipelineError"]

\* lines 55-97 (steps 1-4): clone, repomix, parse, the embedding function
\* and the index; any of them may raise
PlSetup ==
    /\ pl_pc = "idle"
    /\ \E no_firecrawl \in BOOLEAN, deep_research \in BOOLEAN,
          search_query \in BOOLEAN, ok \in BOOLEAN :
          /\ pl_args' = [repo_name |-> "repo", no_firecrawl |-> no_firecrawl,
                         deep_research |-> deep_research,
                         search_query |-> search_query, dimension |-> MaxDimension]
          /\ IF ok
             THEN \E cs \in PlCorpora :
                     /\ pl_repo_chunks' = cs
                     /\ pl_work' = [stream |-> "repo", chunks |-> cs,
                                    vectors |-> <<>>, uuid |-> 0]
                     /\ pl_pc' = "embed"
                     /\ pl_outcome' = pl_outcome
                     /\ PlLogged(<<>>)
             ELSE /\ pl_repo_chunks' = pl_repo_chunks
                  /\ pl_work' = pl_work
                  /\ pl_pc' = "done"
                  /\ pl_outcome' = [kind |-> "PipelineError"]
                  /\ PlLogged(<<[op |-> "setup_failed", stream |-> ""]>>)
    /\ UNCHANGED <<pl_web_chunks, pl_index, pl_upserts, pl_validation>>
    /\ UNCHANGED <<pkVars, emVars, upVars, chVars, vaVars, riVars, rxVars, coVars, seVars, swVars, suVars, pfVars, exVars>>

\* lines 102, 200, 223: embed_chunks on the stream's chunks; the event keeps
\* what the embedding function answered on the last call made
PlEmbed ==
    /\ pl_pc = "embed"
    /\ \E embedding_function \in
             PlEmbeddingFunctions(Len(pl_work.chunks), pl_args.dimension) :
          LET r == embed_chunks(pl_work.chunks, embedding_function, pl_args.dimension)
              event == [op |-> "embed", stream |-> pl_work.stream,
                        answers |-> IF r.calls = <<>> THEN <<>>
                                    ELSE <<embedding_function[r.calls[Len(r.calls)]]>>]
          IN  IF r.raised
              THEN /\ PlRaise(pl_work.stream, <<event>>)
                   /\ pl_work' = pl_work
              ELSE /\ pl_work' = [pl_work EXCEPT !.chunks = r.embedded_chunks]
                   /\ pl_pc' = NextStage("embed")
                   /\ pl_outcome' = pl_outcome
                   /\ PlLogged(<<event>>)
    /\ UNCHANGED <<pl_args, pl_repo_chunks, pl_web_chunks, pl_index, pl_upserts,
                   pl_validation>>
    /\ UNCHANGED <<pkVars, emVars, upVars, chVars, vaVars, riVars, rxVars, coVars, seVars, swVars, suVars, pfVars, exVars>>

\* lines 103, 201, 224: prepare_vectors_for_upsert
PlPackage ==
    /\ pl_pc = "package"
    /\ pl_work' = [pl_work EXCEPT
                      !.vectors = prepare_vectors_for_upsert(pl_work.chunks, pl_work.uuid),
                      !.uuid = pl_work.uuid + Len(pl_work.chunks)]
    /\ pl_pc' = NextStage("package")
    /\ PlLogged(<<[op |-> "package", stream |-> pl_work.stream]>>)
    /\ UNCHANGED <<pl_args, pl_repo_chunks, pl_web_chunks, pl_index, pl_upserts,
                   pl_validation, pl_outcome>>
    /\ UNCHANGED <<pkVars, emVars, upVars, chVars, vaVars, riVars, rxVars, coVars, seVars, swVars, suVars, pfVars, exVars>>

\* lines 106, 206, 226: upsert_vectors with the default batch size
PlUpsert ==
    /\ pl_pc = "upsert"
    /\ \E oracle \in [1..NumBatches(Len(pl_work.vectors), DEFAULT_BATCH_SIZE)
                        -> PlUpOracle] :
          LET r == upsert_vectors(pl_index, pl_work.vectors,
                                  StreamNamespace(pl_work.stream, PlNamespace),
                                  DEFAULT_BATCH_SIZE,
                                  Responses(oracle, pl_work.vectors, DEFAULT_BATCH_SIZE))
              event == [op |-> "upsert", stream |-> pl_work.stream]
          IN  /\ pl_index' = r.index
              /\ IF r.raised
                 THEN /\ PlRaise(pl_work.stream, <<event>>)
                      /\ pl_upserts' = pl_upserts
                 ELSE /\ pl_upserts' = (pl_work.stream :> r.total_upserted) @@ pl_upserts
                      /\ pl_pc' = AfterStream(pl_work.stream)
                      /\ pl_outcome' = pl_outcome
                      /\ PlLogged(<<event>>)
    /\ UNCHANGED <<pl_args, pl_repo_chunks, pl_web_chunks, pl_work, pl_validation>>
    /\ UNCHANGED <<pkVars, emVars, upVars, chVars, vaVars, riVars, rxVars, coVars, seVars, swVars, suVars, pfVars, exVars>>

\* lines 108-172 (steps 6-9): the web chunks.  init_firecrawl may raise; a
\* failed search is caught (lines 156-161), a failed scrape is not
PlFetch ==
    /\ pl_pc = "fetch"
    /\ IF pl_args.no_firecrawl
       THEN /\ pl_web_chunks' = <<>>
            /\ pl_pc' = "research"
            /\ pl_outcome' = pl_outcome
            /\ PlLogged(<<>>)
       ELSE \E outcome \in {"init_raises", "fetch_raises", "fetched"} :
               CASE outcome = "fetched" ->
                      /\ \E results \in SeqUpTo(PlResults, MaxWebChunks) :
                            pl_web_chunks' = process_firecrawl_results(results)
                      /\ pl_pc' = "research"
                      /\ pl_outcome' = pl_outcome
                      /\ PlLogged(<<>>)
                 [] outcome = "fetch_raises" /\ pl_args.search_query ->
                      /\ pl_web_chunks' = <<>>
                      /\ pl_pc' = "research"
                      /\ pl_outcome' = pl_outcome
                      /\ PlLogged(<<[op |-> "absorbed", stream |-> "search"]>>)
                 [] OTHER ->
                      /\ pl_web_chunks' = <<>>
                      /\ pl_pc' = "done"
                      /\ pl_outcome' = [kind |-> "PipelineError"]
                      /\ PlLogged(<<[op |-> "fetch_failed", stream |-> ""]>>)
    /\ UNCHANGED <<pl_args, pl_repo_chunks, pl_work, pl_index, pl_upserts,
                   pl_validation>>
    /\ UNCHANGED <<pkVars, emVars, upVars, chVars, vaVars, riVars, rxVars, coVars, seVars, swVars, suVars, pfVars, exVars>>

\* lines 174-217 (step 10): perform_deep_research raises (caught, lines
\* 213-215) or its results enrich the repository chunks
PlResearch ==
    /\ pl_pc = "research"
    /\ IF pl_args.deep_research /\ ~pl_args.no_firecrawl
       THEN \E researched \in BOOLEAN :
               IF researched
               THEN /\ pl_work' = [pl_work EXCEPT
                          !.stream = "enriched",
                          !.chunks = enrich_content_with_research(pl_repo_chunks, EmptyDict),
                          !.vectors = <<>>]
                    /\ pl_pc' = "embed"
                    /\ PlLogged(<<>>)
               ELSE /\ pl_work' = pl_work
                    /\ pl_pc' = "web"
                    /\ PlLogged(<<[op |-> "absorbed", stream |-> "research"]>>)
       ELSE /\ pl_work' = pl_work
            /\ pl_pc' = "web"
            /\ PlLogged(<<>>)
    /\ UNCHANGED <<pl_args, pl_repo_chunks, pl_web_chunks, pl_index, pl_upserts,
                   pl_validation, pl_outcome>>
    /\ UNCHANGED <<pkVars, emVars, upVars, chVars, vaVars, riVars, rxVars, coVars, seVars, swVars, suVars, pfVars, exVars>>

\* lines 219-228 (step 11): the web stream starts, or is skipped
PlWeb ==
    /\ pl_pc = "web"
    /\ IF ~pl_args.no_firecrawl /\ pl_web_chunks # <<>>
       THEN /\ pl_work' = [pl_work EXCEPT !.stream = "web", !.chunks = pl_web_chunks,
                                          !.vectors = <<>>]
            /\ pl_pc' = "embed"
       ELSE /\ pl_work' = pl_work
            /\ pl_pc' = "validate"
    /\ UNCHANGED <<pl_args, pl_repo_chunks, pl_web_chunks, pl_index, pl_upserts,
                   pl_validation, pl_outcome, pl_log>>
    /\ UNCHANGED <<pkVars, emVars, upVars, chVars, vaVars, riVars, rxVars, coVars, seVars, swVars, suVars, pfVars, exVars>>

\* lines 230-269 (step 12): the validator returns, or raises and is caught
PlValidate ==
    /\ pl_pc = "validate"
    /\ \E returned \in BOOLEAN, v \in PlValidations :
          pl_validation' = ValidationOutcome(returned, v)
    /\ pl_pc' = "report"
    /\ PlLogged(<<[op |-> "validate", stream |-> ""]>>)
    /\ UNCHANGED <<pl_args, pl_repo_chunks, pl_web_chunks, pl_work, pl_index,
                   pl_upserts, pl_outcome>>
    /\ UNCHANGED <<pkVars, emVars, upVars, chVars, vaVars, riVars, rxVars, coVars, seVars, swVars, suVars, pfVars, exVars>>

\* lines 271-301 (step 13)
PlReport ==
    /\ pl_pc = "report"
    /\ pl_outcome' = [kind |-> "returned",
                      results |-> PipelineResults(pl_args, PlNamespace, pl_repo_chunks,
                                                  pl_web_chunks, pl_upserts, pl_validation)]
    /\ pl_pc' = "done"
    /\ UNCHANGED <<pl_args, pl_repo_chunks, pl_web_chunks, pl_work, pl_index,
                   pl_upserts, pl_validation, pl_log>>
    /\ UNCHANGED <<pkVars, emVars, upVars, chVars, vaVars, riVars, rxVars, coVars, seVars, swVars, suVars, pfVars, exVars>>

NextPipeline ==
    \/ PlSetup \/ PlEmbed \/ PlPackage \/ PlUpsert \/ PlFetch
    \/ PlResearch \/ PlWeb \/ PlValidate \/ PlReport

SpecPipeline == Init /\ [][NextPipeline]_vars

\* the embedding function answered the last call of this embed event with a
\* vector of the wrong length
Mismatch(e) ==
    /\ e.op = "embed"
    /\ e.answers # <<>>
    /\ e.answers[1].kind = "vector"
    /\ Len(e.answers[1].vector) # pl_args.dimension

\* the record v of an upsert call was built from the chunks of the stream
FromStream(call, v, stream) ==
    /\ call.namespace = StreamNamespace(stream, PlNamespace)
    /\ stream = "web" <=> v.id.prefix = "web"

\* nothing of the stream was packaged or handed to the index
NothingUpserted(stream) ==
    /\ \A i \in 1..Len(pl_log) :
          pl_log[i].stream = stream => pl_log[i].op \notin {"package", "upsert"}
    /\ \A k \in 1..Len(pl_index.calls) :
          \A a \in 1..Len(pl_index.calls[k].vectors) :
             ~FromStream(pl_index.calls[k], pl_index.calls[k].vectors[a], stream)

\* C3 as stated: whenever the embedding function returns a vector of the
\* wrong length at any point of run_pipeline, the run ends with an error (the
\* mismatch is never absorbed and logged) and no record built from that
\* batch of chunks is upserted.
C3_MismatchAlwaysAborts ==
    \A j \in 1..Len(pl_log) :
       Mismatch(pl_log[j]) =>
          /\ pl_outcome.kind = "PipelineError"
          /\ NothingUpserted(pl_log[j].stream)

\* C3, amended: a wrong-length vector while the repository or the web
\* content is embedded ends the run with PipelineError at once; while the
\* research-enriched copy is embedded it is absorbed and logged and the run
\* goes on with step 11 (if the run ends with PipelineError, a later event
\* caused it); in every case no record built from that batch of chunks is
\* upserted.
C3_MismatchAbortsOutsideEnrichment ==
    \A j \in 1..Len(pl_log) :
       Mismatch(pl_log[j]) =>
          /\ pl_log[j].stream \in {"repo", "web"} =>
                /\ pl_outcome.kind = "PipelineError"
                /\ pl_pc = "done"
                /\ j = Len(pl_log)
          /\ pl_log[j].stream = "enriched" =>
                /\ j < Len(pl_log)
                /\ pl_log[j + 1] = [op |-> "absorbed", stream |-> "enriched"]
                /\ pl_outcome.kind = "PipelineError" => j + 1 < Len(pl_log)
          /\ NothingUpserted(pl_log[j].stream)

\* a mismatch in the enriched stream was absorbed, a later one in the web
\* stream ended the run, and the repository records are in the index
C3_Witness ==
    /\ pl_pc = "done"
    /\ pl_outcome.kind = "PipelineError"
    /\ \E i, j \in 1..Len(pl_log) :
          /\ i < j
          /\ Mismatch(pl_log[i]) /\ pl_log[i].stream = "enriched"
          /\ Mismatch(pl_log[j]) /\ pl_log[j].stream = "web"
    /\ PlNamespace \in DOMAIN pl_index.namespaces

\* the chunk the i-th record of the stream at hand was packaged from
PackagedFrom(i) == pl_work.chunks[i]

\* C14: every record produced by prepare_vectors_for_upsert carries the
\* chunk's identifying path in its metadata: file_path for a repository
\* chunk, source_url for a chunk that process_firecrawl_results made from a
\* scraped or searched page.
C14_PathInMetadata ==
    pl_pc = "upsert" =>
       \A i \in 1..Len(pl_work.vectors) :
          LET m == pl_work.vectors[i].metadata
          IN  IF pl_work.stream = "web"
              THEN "source_url" \in DOMAIN m /\ m["source_url"] = PackagedFrom(i)["url"]
              ELSE "file_path" \in DOMAIN m /\ m["file_path"] = PackagedFrom(i)["file_path"]

\* C15: every chunk run_pipeline passes to prepare_vectors_for_upsert has a
\* source_type and a text that is non-empty after trimming; chunks whose
\* text is empty or only whitespace are dropped before embedding and never
\* reach the index.
C15_NoBlankChunkPackaged ==
    /\ pl_pc \in {"package", "upsert"} =>
          \A i \in 1..Len(pl_work.chunks) :
             /\ "source_type" \in DOMAIN pl_work.chunks[i]
             /\ "text" \in DOMAIN pl_work.chunks[i]
             /\ ~IsBlank(pl_work.chunks[i]["text"])
    /\ \A k \in 1..Len(pl_index.calls) :
          \A a \in 1..Len(pl_index.calls[k].vectors) :
             ~IsBlank(pl_index.calls[k].vectors[a].metadata["text"])

\* C16: an oversized chunk is split before embedding, so every text handed
\* to the embedding function has at most the maximum chunk size of
\* characters and one record is made per piece: a text of 50 and one of 5000
\* characters with a maximum of 2000 give 1 + 3 = 4 records.
C16_OversizedSplit ==
    /\ pl_pc \in {"package", "upsert"} =>
          \A i \in 1..Len(pl_work.chunks) :
             CharLen(pl_work.chunks[i]["text"]) <= ScenarioMaxSize
    /\ (pl_pc = "upsert" /\ pl_work.stream = "repo" /\ pl_repo_chunks = ScenarioCorpus) =>
          Len(pl_work.vectors) = 4

\* the positions of the stream's events of one kind in the log
LogIndex(op, stream) ==
    {i \in 1..Len(pl_log) : pl_log[i].op = op /\ pl_log[i].stream = stream}

\* C17: the stages of a run do not overlap: all chunks of a stream are
\* embedded before any is packaged, all are packaged before the first upsert
\* call for them, and the validator starts only after every upsert call of
\* the run has returned.
C17_StagesInOrder ==
    /\ \A stream \in {"repo", "enriched", "web"} :
          /\ \A op \in {"embed", "package", "upsert"} :
                Cardinality(LogIndex(op, stream)) <= 1
          /\ \A p \in LogIndex("package", stream) :
                \E e \in LogIndex("embed", stream) : e < p
          /\ \A u \in LogIndex("upsert", stream) :
                \E p \in LogIndex("package", stream) : p < u
    /\ \A v \in LogIndex("validate", "") :
          \A i \in 1..Len(pl_log) : pl_log[i].op = "upsert" => i < v
    /\ pl_pc = "package" =>
          /\ \A i \in 1..Len(pl_work.chunks) : "embedding" \in DOMAIN pl_work.chunks[i]
          /\ LogIndex("package", pl_work.stream) = {}
    /\ pl_pc = "upsert" =>
          /\ Len(pl_work.vectors) = Len(pl_work.chunks)
          /\ LogIndex("upsert", pl_work.stream) = {}
          /\ \A k \in 1..Len(pl_index.calls) :
                \A a \in 1..Len(pl_index.calls[k].vectors), b \in 1..Len(pl_work.vectors) :
                   pl_index.calls[k].vectors[a].id # pl_work.vectors[b].id
    /\ pl_pc \in {"report", "done"} /\ pl_outcome.kind # "PipelineError" =>
          LogIndex("validate", "") # {}

\* a run that returned after upserting all three streams and validating
C17_Witness ==
    /\ pl_pc = "done"
    /\ pl_outcome.kind = "returned"
    /\ \A stream \in {"repo", "enriched", "web"} : LogIndex("upsert", stream) # {}
    /\ Len(pl_index.calls) >= 3
    /\ pl_log[Len(pl_log)].op = "validate"

\* C18: a run of run_pipeline ends in exactly one of two ways: it returns
\* the aggregate counts (repo_chunks, vectors upserted, validation results)
\* or it raises PipelineError; a validation that reports failure or raises
\* gives the first, with validation success false.
C18_ReturnsOrPipelineError ==
    /\ pl_outcome.kind \in {"running", "returned", "PipelineError"}
    /\ pl_pc = "done" <=> pl_outcome.kind \in {"returned", "PipelineError"}
    /\ pl_outcome.kind = "returned" =>
          /\ {"repo_chunks", "repo_vectors_upserted", "total_vectors_upserted",
              "validation_results"} \subseteq DOMAIN pl_outcome.results
          /\ pl_outcome.results.repo_chunks = Len(pl_repo_chunks)
          /\ pl_outcome.results.validation_results = pl_validation
          /\ "success" \in DOMAIN pl_validation
    /\ pl_pc = "report" =>
          /\ pl_outcome.kind = "running"
          /\ "error" \in DOMAIN pl_validation => ~pl_validation.success
    /\ (pl_pc = "done" /\ LogIndex("validate", "") # {}) => pl_outcome.kind = "returned"

\* a run that returned although its validation raised
C18_Witness ==
    /\ pl_pc = "done"
    /\ pl_outcome.kind = "returned"
    /\ pl_outcome.results.validation_results = [success |-> FALSE, error |-> "raised"]
    /\ pl_outcome.results.repo_vectors_upserted >= 1

-----------------------------------------------------------------------------
(* Ingestion: upsert_vectors called on its own with any batch size, or by  *)
(* run_pipeline with the default one                                       *)

NextIngest ==
    \/ pl_pc = "idle" /\ NextUpsert
    \/ up_pc = "idle" /\ NextPipeline

SpecIngest == Init /\ [][NextIngest]_vars

\* no other call carries a record of call k's batch
NoRetry(calls, k) ==
    \A j \in (1..Len(calls)) \ {k} :
       \A a \in 1..Len(calls[j].vectors), b \in 1..Len(calls[k].vectors) :
          calls[j].vectors[a].id # calls[k].vectors[b].id

\* the records of every call that did not raise are in the index
RemainWritten(index) ==
    \A k \in 1..Len(index.calls) :
       index.calls[k].response.kind # "raise" =>
          \A a \in 1..Len(index.calls[k].vectors) :
             LET v == index.calls[k].vectors[a]
                 ns == Get(index.namespaces, index.calls[k].namespace, EmptyDict)
             IN  v.id \in DOMAIN ns /\ ns[v.id] = v

\* upsert_vectors on its own: the call that raised is that of batch k and
\* the last one, PineconeError is raised, the index holds batches 1..k-1
UpRaiseEndsCall ==
    up_pc = "done" =>
       \A k \in 1..Len(up_index.calls) :
          up_index.calls[k].response.kind = "raise" =>
             /\ up_result.raised /\ up_result.error = "PineconeError"
             /\ k = Len(up_index.calls)
             /\ NoRetry(up_index.calls, k)
             /\ \A j \in 1..k :
                   up_index.calls[j].vectors =
                      Batch(up_vectors, (j - 1) * up_batch_size, up_batch_size)
             /\ LET ns == Get(up_index.namespaces, UpNamespace, EmptyDict)
                IN  DOMAIN ns =
                       {up_vectors[i].id : i \in 1..((k - 1) * up_batch_size)}
             /\ RemainWritten(up_index)

\* C5 as stated: if the index raises during the upsert call of batch k,
\* upsert_vectors raises PineconeError, does not retry batch k, issues no
\* call for a later batch, and run_pipeline is aborted with an error; the
\* batches before k remain written.
C5_UpsertFailureAlwaysAborts ==
    /\ UpRaiseEndsCall
    /\ \A k \in 1..Len(pl_index.calls) :
          pl_index.calls[k].response.kind = "raise" =>
             /\ pl_outcome.kind = "PipelineError"
             /\ k = Len(pl_index.calls)
             /\ NoRetry(pl_index.calls, k)
    /\ RemainWritten(pl_index)

\* C5, amended: if the index raises during the upsert call of batch k,
\* upsert_vectors raises PineconeError, does not retry batch k and issues no
\* call for a later batch of that sequence; run_pipeline is aborted with
\* PipelineError when the sequence is the repository or the web content,
\* and absorbs and logs the error and goes on with step 11 when it is the
\* research-enriched content; the batches written before remain written.
C5_UpsertFailureAbortsOutsideEnrichment ==
    /\ UpRaiseEndsCall
    /\ \A k \in 1..Len(pl_index.calls) :
          pl_index.calls[k].response.kind = "raise" =>
             /\ NoRetry(pl_index.calls, k)
             /\ IF pl_index.calls[k].namespace = StreamNamespace("enriched", PlNamespace)
                THEN /\ \E i \in 1..Len(pl_log) :
                           pl_log[i] = [op |-> "absorbed", stream |-> "enriched"]
                     /\ \A j \in (k + 1)..Len(pl_index.calls) :
                           pl_index.calls[j].namespace # pl_index.calls[k].namespace
                     /\ "enriched" \notin DOMAIN pl_upserts
                ELSE /\ pl_outcome.kind = "PipelineError"
                     /\ pl_pc = "done"
                     /\ k = Len(pl_index.calls)
    /\ RemainWritten(pl_index)

\* run_pipeline on 101 repository chunks: the call of batch 2 raised, the
\* run ended with PipelineError and the 100 records of batch 1 are written
C5_Witness ==
    /\ pl_pc = "done"
    /\ pl_outcome.kind = "PipelineError"
    /\ Len(pl_index.calls) = 2
    /\ pl_index.calls[1].response.kind # "raise"
    /\ pl_index.calls[2].response.kind = "raise"
    /\ Len(pl_index.calls[1].vectors) = DEFAULT_BATCH_SIZE
    /\ Cardinality(DOMAIN pl_index.namespaces[PlNamespace]) = DEFAULT_BATCH_SIZE

-----------------------------------------------------------------------------
(* Ingestion runs on one index: each run embeds a corpus, packages it with *)
(* ids from uuid4 (a number never drawn before) and upserts it             *)

MaxRuns == 2
MaxCorpus == 2

RiChunks ==
    {[text |-> <<Run("ascii", 1)>>, source_type |-> "repository",
      file_path |-> <<Run("ascii", PathLen)>>],
     [text |-> <<Run("ascii", 2)>>, source_type |-> "web",
      url |-> <<Run("ascii", PathLen)>>, metadata |-> EmptyDict]}

RiOracle == {[kind |-> "mapping", short |-> 0], [kind |-> "opaque"], [kind |-> "raise"]}

RiNamespace == get_namespace_for_repo("repo")

\* pipeline.py lines 100-106: embed_chunks, prepare_vectors_for_upsert and
\* upsert_vectors on the index the earlier runs wrote to
RiRun ==
    /\ ri_runs < MaxRuns
    /\ \E cs \in SeqUpTo(RiChunks, MaxCorpus) :
       \E oracle \in [1..NumBatches(Len(cs), DEFAULT_BATCH_SIZE) -> RiOracle] :
          LET embedded == embed_chunks(cs,
                              [i \in 1..Len(cs) |-> [kind |-> "vector", vector |-> Vector(1)]],
                              1).embedded_chunks
              vectors == prepare_vectors_for_upsert(embedded, ri_uuid)
              r == upsert_vectors(ri_index, vectors, RiNamespace, DEFAULT_BATCH_SIZE,
                                  Responses(oracle, vectors, DEFAULT_BATCH_SIZE))
          IN  /\ ri_index' = r.index
              /\ ri_uuid' = ri_uuid + Len(vectors)
              /\ ri_history' = Append(ri_history, cs)
    /\ ri_runs' = ri_runs + 1
    /\ UNCHANGED <<pkVars, emVars, upVars, chVars, vaVars, plVars, rxVars, coVars, seVars, swVars, suVars, pfVars, exVars>>

NextReingest == RiRun

SpecReingest == Init /\ [][NextReingest]_vars

\* the records handed to the index by the calls that did not raise
RiAccepted ==
    Concat([k \in 1..Len(ri_index.calls) |->
               IF ri_index.calls[k].response.kind = "raise" THEN <<>>
               ELSE ri_index.calls[k].vectors])

\* C13: across ingestion runs on the same index no upsert overwrites or
\* changes a record written earlier: all ids handed to the index are
\* distinct, every record an upsert call accepted is in the namespace as it
\* was written (so a re-ingested corpus is there once per run), and a run
\* leaves every record that was there before it unchanged.
C13_NoOverwrite ==
    /\ [](LET ns == Get(ri_index.namespaces, RiNamespace, EmptyDict)
              acc == RiAccepted
          IN  /\ \A a, b \in 1..Len(acc) : a # b => acc[a].id # acc[b].id
              /\ Cardinality(DOMAIN ns) = Len(acc)
              /\ \A a \in 1..Len(acc) : acc[a].id \in DOMAIN ns /\ ns[acc[a].id] = acc[a])
    /\ [][\A n \in DOMAIN ri_index.namespaces :
             \A id \in DOMAIN ri_index.namespaces[n] :
                /\ n \in DOMAIN ri_index'.namespaces
                /\ id \in DOMAIN ri_index'.namespaces[n]
                /\ ri_index'.namespaces[n][id] = ri_index.namespaces[n][id]]_vars

\* the same two-chunk corpus ingested twice: four records in the namespace
C13_Witness ==
    /\ ri_runs = 2
    /\ Len(ri_history[1]) = 2
    /\ ri_history[2] = ri_history[1]
    /\ RiNamespace \in DOMAIN ri_index.namespaces
    /\ Cardinality(DOMAIN ri_index.namespaces[RiNamespace]) = 4

-----------------------------------------------------------------------------
\* Repomix dump parsing: repomix/processor.py, parse_repomix_output.

\* The text of a dump is a sequence of tokens: a run of other characters
\* ("text"), a run of whitespace ("space"), the structural marker
\* <directory_structure> ("marker"), a file opener <file path="p"> with a
\* non-empty path ("open") and the closer </file> ("close").
MaxTokens == 3
MaxElements == 2

RxPaths == {"a.py", "b.py"}

RxTokens ==
    {[tok |-> "text"], [tok |-> "space"], [tok |-> "marker"], [tok |-> "close"]}
        \cup {[tok |-> "open", path |-> p] : p \in RxPaths}

IsTok(text, i, kind) == text[i].tok = kind

\* str.strip(): leading and trailing whitespace removed
StripTokens(s) ==
    LET solid == {i \in 1..Len(s) : ~IsTok(s, i, "space")}
    IN  IF solid = {} THEN <<>>
        ELSE SubSeq(s, CHOOSE i \in solid : \A j \in solid : i <= j,
                       CHOOSE i \in solid : \A j \in solid : j <= i)

\* "<directory_structure>" in content
HasMarker(text) == \E i \in 1..Len(text) : IsTok(text, i, "marker")

\* the first index from `from` on that holds a token of the kind, or
\* Len(content) + 1
FirstFrom(text, from, kind) ==
    LET hits == {i \in from..Len(text) : IsTok(text, i, kind)}
    IN  IF hits = {} THEN Len(text) + 1
        ELSE CHOOSE i \in hits : \A j \in hits : i <= j

\* content.split("<directory_structure>")[k] for k = 0 and k = 1
SplitPart(text, k) ==
    LET m1 == FirstFrom(text, 1, "marker")
        m2 == FirstFrom(text, m1 + 1, "marker")
    IN  IF k = 0 THEN SubSeq(text, 1, m1 - 1)
        ELSE SubSeq(text, m1 + 1, m2 - 1)

\* line 154
summary_match(text) ==
    IF HasMarker(text) THEN SplitPart(text, 0) ELSE text

\* line 164: re.findall(r'<file path="([^"]+)">(.*?)</file>', content,
\* re.DOTALL), scanning from index `from`: the leftmost opener that has a
\* closer after it, up to the first such closer, then on from behind it
RECURSIVE file_sections(_, _)
file_sections(text, from) ==
    LET starts == {p \in from..Len(text) :
                      /\ IsTok(text, p, "open")
                      /\ FirstFrom(text, p + 1, "close") <= Len(text)}
    IN  IF starts = {} THEN <<>>
        ELSE LET p == CHOOSE i \in starts : \A j \in starts : i <= j
                 q == FirstFrom(text, p + 1, "close")
             IN  <<[file_path |-> text[p].path,
                    file_content |-> SubSeq(text, p + 1, q - 1)]>>
                     \o file_sections(text, q + 1)

RepositoryChunk(text, file_path) ==
    ("text" :> text) @@ ("source_type" :> "repository")
        @@ ("file_path" :> file_path)

\* lines 147-184
Fallback(text) ==
    LET summary == <<RepositoryChunk(StripTokens(summary_match(text)),
                                     "repository_summary.txt")>>
        sections == file_sections(text, 1)
        cs == summary \o
                  [k \in 1..Len(sections) |->
                      RepositoryChunk(StripTokens(sections[k].file_content),
                                      sections[k].file_path)]
    IN  IF Len(cs) = 1 /\ HasMarker(text)
        THEN cs \o <<RepositoryChunk(StripTokens(SplitPart(text, 1)),
                                         "directory_structure.txt")>>
        ELSE cs

\* lines 125-127: a file element without a path is skipped
HasPath_Any(file_elem) == TRUE

HasPath(file_elem) == file_elem.path # ""

\* lines 122-139
ElementChunks_Reversed(elements) ==
    LET kept == SelectSeq(elements, HasPath)
    IN  [k \in 1..Len(kept) |->
            RepositoryChunk(kept[Len(kept) + 1 - k].text,
                            kept[Len(kept) + 1 - k].path)]

ElementChunks(elements) ==
    LET kept == SelectSeq(elements, HasPath)
    IN  [k \in 1..Len(kept) |-> RepositoryChunk(kept[k].text, kept[k].path)]

\* lines 185-197: FileNotFoundError is raised again, any other exception
\* becomes one error chunk
RxReturn(cs) == [raised |-> FALSE, error |-> "", chunks |-> cs]

OnException(e) ==
    IF e = "FileNotFoundError"
    THEN [raised |-> TRUE, error |-> e, chunks |-> <<>>]
    ELSE RxReturn(<<("text" :> <<[tok |-> "text"]>>)
                      @@ ("source_type" :> "error")
                      @@ ("file_path" :> "error.txt")>>)

\* lines 144-145: a ParseError goes on to the fallback
Surfaces_ParseError(e) == TRUE

Surfaces(e) == e # "ParseError"

\* lines 94-197.  dump.opened is the outcome of open and read (lines 111-112),
\* dump.parsed the outcome of ET.parse and findall (lines 116-122).
parse_repomix_output(dump) ==
    IF dump.opened # "ok" THEN OnException(dump.opened)
    ELSE IF dump.parsed.kind # "elements" /\ Surfaces(dump.parsed.kind)
    THEN OnException(dump.parsed.kind)
    ELSE LET cs == IF dump.parsed.kind = "elements"
                       THEN ElementChunks(dump.parsed.elements)
                       ELSE <<>>
         IN  IF cs # <<>> THEN RxReturn(cs)
             ELSE RxReturn(Fallback(dump.content))

\* The dumps.  A dump that cannot be opened or read fails with
\* FileNotFoundError or with another OSError (permission, a directory, an
\* undecodable byte); the parser, which opens the path again, answers with
\* elements, ParseError, FileNotFoundError or another exception.  A dump
\* that holds nothing but whitespace is not well-formed.
RxContents == SeqUpTo(RxTokens, MaxTokens)

RxElements ==
    {[path |-> p, text |-> t] : p \in {"", "a.py"},
                                t \in {<<>>, <<[tok |-> "text"]>>}}

WellFormedPossible(text) == StripTokens(text) # <<>>

RxParsed(text) ==
    {[kind |-> k, elements |-> <<>>] :
        k \in {"ParseError", "FileNotFoundError", "Exception"}}
    \cup (IF WellFormedPossible(text)
          THEN {[kind |-> "elements", elements |-> es] :
                   es \in SeqUpTo(RxElements, MaxElements)}
          ELSE {})

RxRun ==
    /\ rx_pc = "idle"
    /\ \E opened \in {"ok", "FileNotFoundError", "OSError"} :
          IF opened = "ok"
          THEN \E text \in RxContents : \E parsed \in RxParsed(text) :
                  rx_dump' = [opened |-> opened, content |-> text,
                              parsed |-> parsed]
          ELSE rx_dump' = [opened |-> opened, content |-> <<>>,
                           parsed |-> [kind |-> "ParseError",
                                       elements |-> <<>>]]
    /\ rx_result' = parse_repomix_output(rx_dump')
    /\ rx_pc' = "done"
    /\ UNCHANGED <<pkVars, emVars, upVars, chVars, vaVars, plVars, riVars, coVars, seVars, swVars, suVars, pfVars, exVars>>

NextRepomix == RxRun

SpecRepomix == Init /\ [][NextRepomix]_vars

RxFileNotFound ==
    \/ rx_dump.opened = "FileNotFoundError"
    \/ rx_dump.opened = "ok" /\ rx_dump.parsed.kind = "FileNotFoundError"

RxOtherError ==
    \/ rx_dump.opened = "OSError"
    \/ rx_dump.opened = "ok" /\ rx_dump.parsed.kind = "Exception"

WellTyped(cs) ==
    /\ cs # <<>>
    /\ \A k \in 1..Len(cs) :
          /\ {"text", "source_type", "file_path"} \subseteq DOMAIN cs[k]
          /\ cs[k]["source_type"] # ""
          /\ cs[k]["file_path"] # ""

\* C19 as stated: whenever the dump cannot be opened, parse_repomix_output
\* raises the not-found error.
C19_UnopenableRaises ==
    (rx_pc = "done" /\ rx_dump.opened # "ok")
        => (rx_result.raised /\ rx_result.error = "FileNotFoundError")

\* C19, amended: parse_repomix_output raises the not-found error exactly
\* when opening or parsing the dump fails with FileNotFoundError; on any
\* other error other than a parse error, a failure to open or read the dump
\* for another reason included, it returns exactly one chunk with
\* source_type = error; whenever it returns, the sequence is non-empty and
\* every chunk has a text, a source_type and a non-empty path.
C19_MissingRaisesElseReturns ==
    rx_pc = "done" =>
        /\ rx_result.raised <=> RxFileNotFound
        /\ rx_result.raised => rx_result.error = "FileNotFoundError"
        /\ RxOtherError =>
              /\ ~rx_result.raised
              /\ Len(rx_result.chunks) = 1
              /\ rx_result.chunks[1]["source_type"] = "error"
        /\ ~rx_result.raised => WellTyped(rx_result.chunks)

\* a dump that exists but cannot be read: one error chunk is returned
C19_Witness ==
    /\ rx_pc = "done"
    /\ rx_dump.opened = "OSError"
    /\ ~rx_result.raised
    /\ Len(rx_result.chunks) = 1
    /\ rx_result.chunks[1]["source_type"] = "error"

\* the section of the dump that starts at opener p: up to the first closer
\* behind it
SectionEnd(p) ==
    CHOOSE q \in (p + 1)..Len(rx_dump.content) :
        /\ IsTok(rx_dump.content, q, "close")
        /\ \A r \in (p + 1)..(q - 1) : ~IsTok(rx_dump.content, r, "close")

SectionStart(p) ==
    /\ IsTok(rx_dump.content, p, "open")
    /\ \E q \in (p + 1)..Len(rx_dump.content) : IsTok(rx_dump.content, q, "close")

\* the first section start from index `from` on is p
FirstSectionFrom(from, p) ==
    /\ p >= from
    /\ SectionStart(p)
    /\ \A r \in from..(p - 1) : ~SectionStart(r)

\* the chunks behind the summary are the sections of the dump, found from
\* left to right without overlap, and all of them
SectionsInOrder(cs) ==
    \E first \in [2..Len(cs) -> 1..Len(rx_dump.content)] :
        /\ \A k \in 2..Len(cs) :
              /\ FirstSectionFrom(IF k = 2 THEN 1
                                  ELSE SectionEnd(first[k - 1]) + 1, first[k])
              /\ cs[k]["file_path"] = rx_dump.content[first[k]].path
              /\ cs[k]["text"] =
                     StripTokens(SubSeq(rx_dump.content, first[k] + 1,
                                  SectionEnd(first[k]) - 1))
              /\ cs[k]["source_type"] = "repository"
        /\ \A r \in (SectionEnd(first[Len(cs)]) + 1)..Len(rx_dump.content) :
              ~SectionStart(r)

\* the text before the first marker (all of it without a marker), and the
\* text between the first marker and the next
BeforeMarker(text) ==
    \E m \in 1..(Len(rx_dump.content) + 1) :
        /\ \A r \in 1..(m - 1) : ~IsTok(rx_dump.content, r, "marker")
        /\ m <= Len(rx_dump.content) => IsTok(rx_dump.content, m, "marker")
        /\ text = StripTokens(SubSeq(rx_dump.content, 1, m - 1))

AfterMarker(text) ==
    \E m \in 1..Len(rx_dump.content) :
    \E n \in (m + 1)..(Len(rx_dump.content) + 1) :
        /\ IsTok(rx_dump.content, m, "marker")
        /\ \A r \in (1..(n - 1)) \ {m} : ~IsTok(rx_dump.content, r, "marker")
        /\ n <= Len(rx_dump.content) => IsTok(rx_dump.content, n, "marker")
        /\ text = StripTokens(SubSeq(rx_dump.content, m + 1, n - 1))

Pathed == {i \in 1..Len(rx_dump.parsed.elements) :
              rx_dump.parsed.elements[i].path # ""}

\* the chunks are the file nodes that declare a path, one chunk per node
\* and in document order
OnePerPathedNode(cs) ==
    \E node \in [1..Len(cs) -> 1..Len(rx_dump.parsed.elements)] :
        /\ {node[k] : k \in 1..Len(cs)} = Pathed
        /\ \A k \in 1..Len(cs) : \A l \in 1..Len(cs) :
              k < l => node[k] < node[l]
        /\ \A k \in 1..Len(cs) :
              /\ cs[k]["source_type"] = "repository"
              /\ cs[k]["file_path"] = rx_dump.parsed.elements[node[k]].path
              /\ cs[k]["text"] = rx_dump.parsed.elements[node[k]].text

RxParsedTree ==
    rx_pc = "done" /\ rx_dump.opened = "ok" /\ rx_dump.parsed.kind = "elements"

\* C21 as stated: whenever the dump parses as a tagged tree, the chunks
\* returned are exactly the file nodes that declare a path, and nothing
\* else.
C21_TreeGivesOnlyFileNodes ==
    RxParsedTree => (~rx_result.raised /\ OnePerPathedNode(rx_result.chunks))

\* C21, amended: when the dump parses as a tagged tree in which at least
\* one file node declares a path, parse_repomix_output returns exactly one
\* chunk per such node, in document order, with source_type = repository
\* and the declared path; nodes without a path are skipped.  When the tree
\* holds no file node with a path, the fallback extraction is used although
\* parsing succeeded.
C21_TreeGivesFileNodesOrFallback ==
    RxParsedTree =>
        /\ ~rx_result.raised
        /\ Pathed # {} => OnePerPathedNode(rx_result.chunks)
        /\ Pathed = {} =>
              /\ rx_result.chunks # <<>>
              /\ rx_result.chunks[1]["file_path"] = "repository_summary.txt"

\* a tree with a file node without a path in front of one with a path: one
\* chunk
C21_Witness ==
    /\ RxParsedTree
    /\ Len(rx_dump.parsed.elements) = 2
    /\ Pathed = {2}
    /\ ~rx_result.raised
    /\ Len(rx_result.chunks) = 1
    /\ rx_result.chunks[1]["file_path"] = "a.py"

-----------------------------------------------------------------------------
(* Ingestion of several corpora into one index: git/repo_manager.py,       *)
(* extract_repo_name, and run_pipeline lines 55-106.  A repository URL is  *)
(* its owner and repository segments, with or without the ".git" suffix   *)
(* and a trailing "/"; "local" is a path that exists on this machine.      *)

MaxIngests == 2

RepoUrls ==
    [kind : {"url", "local"}, owner : {"alice", "bob"},
     repo : {"utils", "site"}, dotgit : BOOLEAN, slash : BOOLEAN]

\* the last segment as written in the URL
LastSegment(repo_url) ==
    IF repo_url.dotgit THEN repo_url.repo \o ".git" ELSE repo_url.repo

\* repo_manager.py lines 20-50
extract_repo_name(repo_url) ==
    IF repo_url.kind = "local"
    THEN \* os.path.basename(os.path.normpath(repo_url)): the suffix stays
         LastSegment(repo_url)
    ELSE IF ~repo_url.slash
    THEN \* re.search(r'/([^/]+?)(?:\.git)?$'): the suffix is outside the group
         repo_url.repo
    ELSE \* rstrip('/').split('/')[-1].replace('.git', '')
         repo_url.repo

\* the corpus a URL names: the repository of an owner
Corpus(repo_url) == <<repo_url.owner, repo_url.repo>>

\* the index accepts the batch or raises
CoAnswers == {[kind |-> "mapping", short |-> 0], [kind |-> "raise"]}

\* pipeline.py lines 55-106 for a corpus of one chunk: the namespace from the
\* URL, then embed_chunks, prepare_vectors_for_upsert and upsert_vectors
CoRun ==
    /\ Len(co_log) < MaxIngests
    /\ \E repo_url \in RepoUrls : \E answer \in CoAnswers :
          LET namespace == get_namespace_for_repo(extract_repo_name(repo_url))
              cs == <<[text |-> <<Run("ascii", 1)>>, source_type |-> "repository",
                       file_path |-> <<Run("ascii", PathLen)>>]>>
              embedded == embed_chunks(cs,
                              [i \in 1..Len(cs) |-> [kind |-> "vector", vector |-> Vector(1)]],
                              1).embedded_chunks
              vectors == prepare_vectors_for_upsert(embedded, co_uuid)
              r == upsert_vectors(co_index, vectors, namespace, DEFAULT_BATCH_SIZE,
                                  Responses([k \in 1..1 |-> answer], vectors,
                                            DEFAULT_BATCH_SIZE))
          IN  /\ co_index' = r.index
              /\ co_uuid' = co_uuid + Len(vectors)
              /\ co_log' = Append(co_log,
                                  [repo_url |-> repo_url, namespace |-> namespace,
                                   ids |-> IF r.raised THEN {}
                                           ELSE {vectors[j].id : j \in 1..Len(vectors)}])
    /\ UNCHANGED <<pkVars, emVars, upVars, chVars, vaVars, plVars, riVars, rxVars, seVars, swVars, suVars, pfVars, exVars>>

NextCorpora == CoRun

SpecCorpora == Init /\ [][NextCorpora]_vars

\* C22: no namespace of the index ever holds records of two corpora: two
\* runs for different repositories that both wrote records wrote them to
\* different namespaces.
C22_NamespaceIsolatesCorpora ==
    \A a, b \in 1..Len(co_log) :
        (/\ Corpus(co_log[a].repo_url) # Corpus(co_log[b].repo_url)
         /\ co_log[a].ids # {} /\ co_log[b].ids # {})
            => co_log[a].namespace # co_log[b].namespace

-----------------------------------------------------------------------------
(* The hashing-based sparse embedding function: embedding/embedder.py,     *)
(* create_pinecone_sparse_embedding_function, used by run_pipeline with    *)
(* the dimension of the configuration (pipeline.py lines 70-73, 94-97).    *)

SPARSE_DIMENSION == 384
MaxWords == 3
MaxSpaces == 2

\* hash(word) % 384 is drawn from these slots
HashSlots == {0, 1, 2, SPARSE_DIMENSION - 1}

\* text.lower().split(): the words of a text, one per run of other characters
WordCount(t) ==
    Cardinality({i \in 1..Len(t) :
                    /\ t[i].cls # "space"
                    /\ (i = 1 \/ t[i - 1].cls = "space")})

\* lines 168-170: not text or not text.strip()
ZeroVectorCase(text) == text = <<>> \/ IsBlank(text)

\* lines 168-189: the vector of a text whose words hash to the slots of
\* `hashes`; 1 stands for the normalised non-zero value
embed_text(text, hashes) ==
    IF ZeroVectorCase(text) THEN [j \in 1..SPARSE_DIMENSION |-> 0]
    ELSE [j \in 1..SPARSE_DIMENSION |->
             IF \E w \in 1..Len(hashes) : hashes[w] = j - 1 THEN 1 ELSE 0]

\* blank texts, and texts of one to MaxWords words separated by a space
SeWords(n) ==
    [i \in 1..(2 * n - 1) |->
        IF i % 2 = 1 THEN Run("ascii", 1) ELSE Run("space", 1)]

SeTexts ==
    {<<>>} \cup {<<Run("space", n)>> : n \in 1..MaxSpaces}
           \cup {SeWords(n) : n \in 1..MaxWords}

\* the dimension of the configuration: any positive number
SeDimensions ==
    (1..MaxDimension)
        \cup {SPARSE_DIMENSION - 1, SPARSE_DIMENSION, SPARSE_DIMENSION + 1}

\* one chunk embedded with the sparse function under a configured dimension
SeRun ==
    /\ se_pc = "idle"
    /\ \E dimension \in SeDimensions, text \in SeTexts :
       \E hashes \in [1..WordCount(text) -> HashSlots] :
          /\ se_dimension' = dimension
          /\ se_text' = text
          /\ se_vector' = embed_text(text, hashes)
          /\ se_result' =
                embed_chunks(<<[text |-> text, source_type |-> "repository",
                                file_path |-> <<Run("ascii", PathLen)>>]>>,
                             <<[kind |-> "vector", vector |-> se_vector']>>,
                             dimension)
    /\ se_pc' = "done"
    /\ UNCHANGED <<pkVars, emVars, upVars, chVars, vaVars, plVars, riVars,
                   rxVars, coVars, swVars, suVars, pfVars, exVars>>

NextSparse == SeRun

SpecSparse == Init /\ [][NextSparse]_vars

\* C24: for an empty or whitespace-only text the sparse embedding function
\* returns an all-zero vector whose length is the dimension configured for
\* the run, so embed_chunks accepts it for that dimension.
C24_BlankGivesConfiguredZeroVector ==
    (se_pc = "done" /\ (se_text = <<>> \/ IsBlank(se_text))) =>
        /\ \A j \in 1..Len(se_vector) : se_vector[j] = 0
        /\ Len(se_vector) = se_dimension
        /\ ~se_result.raised

-----------------------------------------------------------------------------
(* Web search: firecrawl/search.py, search_web_content.  The client is a   *)
(* FirecrawlClient or another object with a search method ("client"), the  *)
(* function mcp1_firecrawl_search of the main module ("main"), or neither  *)
(* ("none"); its answer is an oracle.                                      *)

MaxHits == 2

SwHits == [url : {"u"}, markdown : BOOLEAN]

SwAnswers ==
    {[kind |-> "results", results |-> hs] : hs \in SeqUpTo(SwHits, MaxHits)}
    \cup {[kind |-> k, results |-> <<>>] :
             k \in {"no_results", "ImportError", "Exception"}}

\* lines 142-171: the results of an answer
SearchResult(hit) ==
    [url |-> hit.url, title |-> "",
     content |-> IF hit.markdown THEN "markdown" ELSE "",
     source_type |-> "web_search"]

\* lines 200-220
mock_results ==
    [k \in 1..3 |-> [url |-> "mock", title |-> "mock", content |-> "mock",
                     source_type |-> "web_search_mock"]]

\* lines 54-72 and 225-227: the exceptions raised in front of the inner try
\* block are caught by the handler of the outer one, which returns []
RaisedBeforeSearch(mock_mode, api_key) == mock_mode \/ ~api_key

\* lines 34-227; client_calls counts the calls of the search function
search_web_content(mock_mode, api_key, client, answer) ==
    IF RaisedBeforeSearch(mock_mode, api_key)
    THEN [results |-> <<>>, client_calls |-> 0]
    ELSE IF client = "none"
    THEN \* line 135, caught at line 173
         [results |-> mock_results, client_calls |-> 0]
    ELSE IF answer.kind \in {"ImportError", "Exception"}
    THEN \* lines 173-180
         [results |-> mock_results, client_calls |-> 1]
    ELSE IF answer.kind = "no_results"
    THEN [results |-> <<>>, client_calls |-> 1]
    ELSE [results |-> [k \in 1..Len(answer.results) |->
                          SearchResult(answer.results[k])],
          client_calls |-> 1]

SwRun ==
    /\ sw_pc = "idle"
    /\ \E mock_mode \in BOOLEAN, api_key \in BOOLEAN,
          client \in {"client", "main", "none"}, answer \in SwAnswers :
          /\ sw_input' = [mock_mode |-> mock_mode, api_key |-> api_key,
                          client |-> client, answer |-> answer]
          /\ sw_result' = search_web_content(mock_mode, api_key, client, answer)
    /\ sw_pc' = "done"
    /\ UNCHANGED <<pkVars, emVars, upVars, chVars, vaVars, plVars, riVars,
                   rxVars, coVars, seVars, suVars, pfVars, exVars>>

NextSearch == SwRun

SpecSearch == Init /\ [][NextSearch]_vars

\* C25: in mock mode, or without FIRECRAWL_API_KEY, search_web_content
\* makes no call to the client and returns the three mock results.
C25_MockFallback ==
    (sw_pc = "done" /\ (sw_input.mock_mode \/ ~sw_input.api_key)) =>
        /\ sw_result.client_calls = 0
        /\ Len(sw_result.results) = 3
        /\ \A k \in 1..Len(sw_result.results) :
              sw_result.results[k].source_type = "web_search_mock"

-----------------------------------------------------------------------------
(* Scraping: firecrawl/crawler.py, scrape_url and scrape_urls.  The URLs   *)
(* are numbered 1..n.  client.scrape and the batch scraper are oracles;    *)
(* su_log lists the calls of scrape_url.                                   *)

MaxUrls == 2
MaxRetries == 2

ScrapeAnswers == {"result", "FirecrawlError", "Exception"}

\* lines 300-346: `answer` is what client.scrape does when it is called
scrape_url(is_firecrawl_client, url, answer) ==
    IF is_firecrawl_client /\ answer = "result"
    THEN [raised |-> FALSE, result |-> [url |-> url, source |-> "firecrawl"]]
    ELSE IF is_firecrawl_client /\ answer = "Exception"
    THEN \* lines 344-346: FirecrawlError
         [raised |-> TRUE, result |-> EmptyDict]
    ELSE \* lines 324-343: the mock result
         [raised |-> FALSE, result |-> [url |-> url, source |-> "firecrawl_mock"]]

\* line 489: the condition of the while loop
KeepTrying_NoLimit(n_retries, max_retries, succeeded) == ~succeeded

KeepTrying(n_retries, max_retries, succeeded) ==
    n_retries < max_retries /\ ~succeeded

\* lines 437-449: the batch scraper is imported only for a FirecrawlClient
\* and used only for more than one URL
UsesBatch(args) ==
    args.is_firecrawl_client /\ args.batch_scrape_available /\ args.n > 1

\* lines 460-478: zip(urls, results), the items with success kept
BatchResults(flags) ==
    LET kept == SelectSeq([k \in 1..Len(flags) |-> k], LAMBDA k : flags[k])
    IN  [j \in 1..Len(kept) |-> [url |-> kept[j], source |-> "firecrawl_batch"]]

SuArgs ==
    [is_firecrawl_client : BOOLEAN, batch_scrape_available : BOOLEAN,
     n : 0..MaxUrls, max_retries : 0..MaxRetries]

\* lines 435-449 and 483-487 without the batch scraper
SuStart ==
    /\ su_pc = "idle"
    /\ \E args \in SuArgs :
          /\ ~UsesBatch(args)
          /\ args.batch_scrape_available => args.is_firecrawl_client
          /\ su_args' = args
    /\ su_pc' = "loop" /\ su_i' = 1
    /\ UNCHANGED <<retries, success, su_results, su_log>>
    /\ UNCHANGED <<pkVars, emVars, upVars, chVars, vaVars, plVars, riVars,
                   rxVars, coVars, seVars, swVars, pfVars, exVars>>

\* lines 449-478: the batch scraper answers
SuBatch ==
    /\ su_pc = "idle"
    /\ \E args \in SuArgs :
          /\ UsesBatch(args)
          /\ su_args' = args
          /\ \E flags \in SeqUpTo(BOOLEAN, args.n) :
                su_results' = BatchResults(flags)
    /\ su_pc' = "done"
    /\ UNCHANGED <<su_i, retries, success, su_log>>
    /\ UNCHANGED <<pkVars, emVars, upVars, chVars, vaVars, plVars, riVars,
                   rxVars, coVars, seVars, swVars, pfVars, exVars>>

\* lines 449-458 and 479-487: the batch scraper raises
SuBatchRaises ==
    /\ su_pc = "idle"
    /\ \E args \in SuArgs :
          /\ UsesBatch(args)
          /\ su_args' = args
    /\ su_pc' = "loop" /\ su_i' = 1
    /\ UNCHANGED <<retries, success, su_results, su_log>>
    /\ UNCHANGED <<pkVars, emVars, upVars, chVars, vaVars, plVars, riVars,
                   rxVars, coVars, seVars, swVars, pfVars, exVars>>

\* lines 489-507: one iteration of the while loop
SuAttempt ==
    /\ su_pc = "loop" /\ su_i <= su_args.n
    /\ KeepTrying(retries, su_args.max_retries, success)
    /\ \E answer \in ScrapeAnswers :
          LET r == scrape_url(su_args.is_firecrawl_client, su_i, answer)
          IN  /\ su_log' = Append(su_log, [url |-> su_i, raised |-> r.raised])
              /\ IF r.raised
                 THEN /\ retries' = retries + 1
                      /\ UNCHANGED <<success, su_results>>
                 ELSE /\ su_results' = Append(su_results, r.result)
                      /\ success' = TRUE
                      /\ UNCHANGED retries
    /\ UNCHANGED <<su_pc, su_args, su_i>>
    /\ UNCHANGED <<pkVars, emVars, upVars, chVars, vaVars, plVars, riVars,
                   rxVars, coVars, seVars, swVars, pfVars, exVars>>

\* lines 485-489: the while loop ends, the for loop goes on
SuNextUrl ==
    /\ su_pc = "loop" /\ su_i <= su_args.n
    /\ ~KeepTrying(retries, su_args.max_retries, success)
    /\ su_i' = su_i + 1 /\ retries' = 0 /\ success' = FALSE
    /\ UNCHANGED <<su_pc, su_args, su_results, su_log>>
    /\ UNCHANGED <<pkVars, emVars, upVars, chVars, vaVars, plVars, riVars,
                   rxVars, coVars, seVars, swVars, pfVars, exVars>>

\* lines 513-515
SuReturn ==
    /\ su_pc = "loop" /\ su_i > su_args.n
    /\ su_pc' = "done"
    /\ UNCHANGED <<su_args, su_i, retries, success, su_results, su_log>>
    /\ UNCHANGED <<pkVars, emVars, upVars, chVars, vaVars, plVars, riVars,
                   rxVars, coVars, seVars, swVars, pfVars, exVars>>

NextScrape ==
    SuStart \/ SuBatch \/ SuBatchRaises \/ SuAttempt \/ SuNextUrl \/ SuReturn

SpecScrape == Init /\ [][NextScrape]_vars

\* the interpreter keeps executing the loops
SpecScrapeFair == SpecScrape /\ WF_vars(NextScrape)

\* the calls of scrape_url for URL u, in call order
AttemptsOf(u) == SelectSeq(su_log, LAMBDA e : e.url = u)

\* the calls go through the URLs in order; the calls for one URL end with
\* the first success and are at most max_retries
AttemptsInOrder ==
    /\ \A a, b \in 1..Len(su_log) : a < b => su_log[a].url <= su_log[b].url
    /\ \A u \in 1..MaxUrls + 1 :
          LET att == AttemptsOf(u)
          IN  /\ Len(att) <= su_args.max_retries
              /\ \A k \in 1..(Len(att) - 1) : att[k].raised

\* the results are those of the URLs whose last call succeeded, one per URL
\* and in URL order
ResultsOfSuccesses ==
    LET ok == {u \in 1..MaxUrls + 1 :
                  AttemptsOf(u) # <<>> /\ ~AttemptsOf(u)[Len(AttemptsOf(u))].raised}
    IN  /\ {su_results[k].url : k \in 1..Len(su_results)} = ok
        /\ \A a, b \in 1..Len(su_results) :
              a < b => su_results[a].url < su_results[b].url

\* every URL was tried until its first success or max_retries failures
AllTried ==
    \A u \in 1..su_args.n :
        LET att == AttemptsOf(u)
        IN  \/ att # <<>> /\ ~att[Len(att)].raised
            \/ Len(att) = su_args.max_retries

-----------------------------------------------------------------------------
(* Result processing runs: process_firecrawl_results on the results of a   *)
(* search or a scrape.  A result may lack its url, its content or its      *)
(* source_type; the content is a str or a dict with a markdown entry.      *)

MaxResults == 2

PfTexts == {<<>>, <<Run("ascii", 1)>>}

PfContents ==
    {[kind |-> "str", text |-> t] : t \in PfTexts}
    \cup {[kind |-> "dict", markdown |-> t] : t \in PfTexts}

PfResults ==
    {url @@ content_entry @@ source :
        url \in {EmptyDict} \cup {[url |-> u] : u \in {<<>>, <<Run("ascii", PathLen)>>}},
        content_entry \in {EmptyDict} \cup {[content |-> c] : c \in PfContents},
        source \in {EmptyDict, [source_type |-> "web_search"]}}

PfRun ==
    /\ pf_pc = "idle"
    /\ \E results \in SeqUpTo(PfResults, MaxResults) :
          /\ pf_results' = results
          /\ pf_chunks' = process_firecrawl_results(results)
    /\ pf_pc' = "done"
    /\ UNCHANGED <<pkVars, emVars, upVars, chVars, vaVars, plVars, riVars,
                   rxVars, coVars, seVars, swVars, suVars, exVars>>

NextProcess == PfRun

SpecProcess == Init /\ [][NextProcess]_vars

\* a result has a non-empty content and a non-empty url
HasContentAndUrl(result) ==
    /\ "content" \in DOMAIN result
    /\ (IF result["content"].kind = "str" THEN result["content"].text
        ELSE result["content"].markdown) # <<>>
    /\ "url" \in DOMAIN result
    /\ result["url"] # <<>>

\* C27: process_firecrawl_results emits a chunk only for the results that
\* have content and a URL (none for an empty list), and every chunk it
\* emits has a non-empty text and a non-empty source URL.
C27_ChunksHaveTextAndUrl ==
    pf_pc = "done" =>
        /\ Len(pf_chunks) = Len(SelectSeq(pf_results, HasContentAndUrl))
        /\ \A k \in 1..Len(pf_chunks) :
              /\ pf_chunks[k].text # <<>>
              /\ pf_chunks[k].url # <<>>
-----------------------------------------------------------------------------
(* Candidate extraction: validate_repository_ingestion, lines 45-94.  A    *)
(* line of the listing is described by what the two filters look at:       *)
(*   blank   - nothing is left after line.strip()                          *)
(*   dir     - the stripped line ends with "/"                             *)
(*   code    - "eq_paren" when clean_line holds "=" or "(", "other" when   *)
(*             it holds only some of ) { } < > ; : , "none" otherwise      *)
(*   tokens  - len(clean_line.split()); 0 when the line is only bullets    *)
(*   pathlike- file_path_pattern matches clean_line or "/" is in it        *)

MaxLines == 3

ExLineKinds ==
    {l \in [blank : BOOLEAN, dir : BOOLEAN, code : {"none", "eq_paren", "other"},
            tokens : 0..4, pathlike : BOOLEAN] :
        /\ l.blank => (~l.dir /\ l.code = "none" /\ l.tokens = 0 /\ ~l.pathlike)
        /\ l.dir => (l.code = "none" /\ l.tokens = 1 /\ l.pathlike)
        /\ (l.tokens = 0) => (l.code = "none" /\ ~l.pathlike)}

PathLine == [blank |-> FALSE, dir |-> FALSE, code |-> "none", tokens |-> 1, pathlike |-> TRUE]
CodeLine == [blank |-> FALSE, dir |-> FALSE, code |-> "other", tokens |-> 2, pathlike |-> FALSE]

\* scenario C of the specification: 8 file-path lines and 2 code-like lines
ScenarioC == [i \in 1..10 |-> IF i <= 8 THEN PathLine ELSE CodeLine]

ExListings == SeqUpTo(ExLineKinds, MaxLines) \cup {ScenarioC}

\* lines 61-62: empty lines and directories are skipped
Skipped(l) == l.blank \/ l.dir

\* line 77, the last test of the first loop
LooksLikePath(l) == l.pathlike

\* lines 59-78: the first loop
StrictFilter(l) ==
    /\ ~Skipped(l)
    /\ l.code = "none"
    /\ ~(l.tokens > 2)
    /\ LooksLikePath(l)

\* lines 83-90: the fallback loop
LenientFilter(l) ==
    /\ ~Skipped(l)
    /\ ~(l.tokens > 3 \/ l.code = "eq_paren")

\* lines 52-90
extract_file_paths(lines) ==
    LET strict == SelectSeq(lines, StrictFilter)
    IN  IF strict # <<>>
        THEN [file_paths |-> strict, fallback |-> FALSE]
        ELSE [file_paths |-> SelectSeq(lines, LenientFilter), fallback |-> TRUE]

\* lines 45-98
ExRun ==
    /\ ex_pc = "idle"
    /\ \E lines \in ExListings :
          LET e == extract_file_paths(lines)
          IN  /\ ex_lines' = lines
              /\ ex_file_paths' = e.file_paths
              /\ ex_fallback' = e.fallback
              /\ IF e.file_paths = <<>>
                 THEN /\ ex_result' = [success |-> FALSE,
                                       error |-> "No file paths found in Repomix output"]
                      /\ ex_pc' = "done"
                 ELSE /\ ex_result' = ex_result
                      /\ ex_pc' = "query"
    /\ UNCHANGED <<pkVars, emVars, upVars, chVars, vaVars, plVars, riVars, rxVars, coVars, seVars, swVars, suVars, pfVars>>

NextExtract == ExRun

SpecExtract == Init /\ [][NextExtract]_vars

\* the strict filter as the specification states it
StatedStrict(l) == ~Skipped(l) /\ l.code = "none" /\ l.tokens <= 2

CodeLike(l) == l.code # "none"

\* C29: the candidates are exactly the lines passing the strict filter
\* (no code character, at most two tokens); the looser filter is applied
\* iff the strict one yields nothing; a code-like line is never a candidate;
\* 8 path lines and 2 code-like lines give 8 candidates; with no candidate
\* the validator returns success = false without a query.
C29_CandidatesAreStrictLines ==
    ex_pc # "idle" =>
        LET strict == SelectSeq(ex_lines, StatedStrict)
        IN  /\ ~ex_fallback => ex_file_paths = strict
            /\ ex_fallback <=> strict = <<>>
            /\ \A i \in 1..Len(ex_file_paths) : ~CodeLike(ex_file_paths[i])
            /\ ex_lines = ScenarioC => Len(ex_file_paths) = 8
            /\ ex_file_paths = <<>> <=> (ex_pc = "done" /\ ~ex_result.success)
-----------------------------------------------------------------------------
(* The total reported by run_pipeline *)

\* C30: total_vectors_upserted of the returned dict is the sum of the
\* total_upserted counts of every upsert_vectors call of the run: repository
\* content, web content and research-enriched content.
C30_TotalCountsEveryUpsert ==
    (pl_pc = "done" /\ pl_outcome.kind = "returned") =>
        pl_outcome.results.total_vectors_upserted =
            Get(pl_upserts, "repo", 0) + Get(pl_upserts, "enriched", 0)
                + Get(pl_upserts, "web", 0)

=============================================================================
